---- MODULE Spec2Model ----
(***************************************************************************)
(* Volume-spike monitors of auto-notify.                                   *)
(*                                                                         *)
(* Rotating monitor (monitor-all-pairs-rotating.js): one run of monitor()  *)
(* is one process: it loads monitor-state.json, refreshes the two symbol   *)
(* lists when they are stale, selects a batch per exchange starting at the *)
(* persisted lastIndex, evaluates it, notifies, advances the cursors and   *)
(* saves the state.  Runs are serialized: a run starts only when no other  *)
(* run is in progress.                                                     *)
(*                                                                         *)
(* All-pairs monitor with heartbeat: one run loads its state, refreshes    *)
(* the lists when stale, checks every symbol, sends the heartbeat when     *)
(* due, stamps the state and saves it.                                     *)
(*                                                                         *)
(* The symbol-list functions, the detection functions and one iteration of *)
(* checkExchange are functions of their arguments: their specifications    *)
(* draw the arguments in the initial state and apply the function once.    *)
(*                                                                         *)
(* In the monitors a symbol list is a sequence of symbol ids; the listing  *)
(* an exchange returns with n instruments is <<1, ..., n>>.  Time is       *)
(* counted in units of 12 hours and is read once per run (it advances      *)
(* between runs).  Volumes are integers and quotients exact fractions.     *)
(***************************************************************************)
EXTENDS Integers, Sequences, FiniteSets, TLC

VARIABLES
    file,       \* monitor-state.json: whether it exists, and the saved state object
    state,      \* the process's global `state` object
    pc,         \* position of the running monitor(), "idle" between runs
    batch,      \* [binanceSymbols, okxSymbols] returned by getSymbolsForThisRun
    found,      \* allSpikes.length > 0 in this run
    delivered,  \* the notification request of this run succeeded
    outcome,    \* how the last ended run ended
    now,        \* Date.now(), in units of 12 hours
    exch,       \* the instruments listed by each exchange (fixed-universe specs)
    countCap,   \* observer mode: selections are counted up to this cap (0: not observed)
    selCount,   \* observer: per exchange and symbol id, times selected so far
    runsDone,   \* observer: runs that selected a batch and persisted it
    lastBatch,  \* observer: batch of the last ended run that selected one (else empty)
    lastSaved,  \* observer: that run persisted its state
    fetched,    \* per exchange, what this run's symbol-list request did: none made, ok, failed
    fullFile,   \* all-pairs monitor: its monitor-state.json
    fullState,  \* all-pairs monitor: the process's global `state` object
    fullPc,     \* all-pairs monitor: position of the running monitor(), "idle" between runs
    fullObs,    \* observer of the all-pairs monitor: its fetches, runs and notifications
    input,      \* arguments of the function under evaluation (function specifications)
    result,     \* what the function returned, NoResult before it is applied
    procs       \* two processes of the rotating monitor on one state file, and their observer

vars == <<file, state, pc, batch, found, delivered, outcome, now, exch,
          countCap, selCount, runsDone, lastBatch, lastSaved, fetched,
          fullFile, fullState, fullPc, fullObs, input, result, procs>>

obsVars == <<selCount, runsDone, lastBatch, lastSaved>>

\* the variables of the all-pairs monitor and its observer
fullVars == <<fullFile, fullState, fullPc, fullObs>>

\* the variables of the function specifications
fnVars == <<input, result>>

\* the variables the rotating monitor does not touch
extVars == <<fullVars, fnVars, procs>>

\* the variables of the rotating monitor and its observer
monitorVars == <<file, state, pc, batch, found, delivered, outcome, exch,
                 countCap, selCount, runsDone, lastBatch, lastSaved, fetched>>

(* ------------------------------ bounds -------------------------------- *)

\* longest listing an exchange returns when the universe may change
MaxSyms == 6
\* longest listing an exchange returns to the all-pairs monitor
MaxFullSyms == 2
\* runs of the all-pairs monitor (state.stats.totalRuns is counted up to it)
MaxFullRuns == 4
\* most instruments in one exchangeInfo answer
MaxListed == 3
\* longest candle sequence a request returns
MaxCandles == 21
\* longest listing of an exchange whose universe is fixed
MaxFixedSyms == 10
\* last clock value
MaxNow == 6
\* completed runs that are counted exactly
MaxRuns == 3
\* spikes returned by one checkExchange call
MaxSpikes == 2
\* symbols in a list held by a saved state file
MaxSavedSyms == 2
\* symbols handed to one checkExchange call
MaxChecked == 7
\* candles in one answer of the OKX candle endpoint
MaxKlines == 3
\* symbols per exchange and runs started when two processes share the file
MaxOverlapSyms == 7
MaxOverlapRuns == 3

(* --------------------------- configuration ---------------------------- *)

\* config.pairsPerRun
pairsPerRun == 10
\* 24 * 60 * 60 * 1000 ms, in units of 12 hours
twentyFourHours == 2

Sources == {"binance", "okx"}

Min(a, b) == IF a < b THEN a ELSE b

\* Math.ceil(n / 2) and Math.floor(n / 2) on a non-negative integer
CeilHalf(n) == (n + 1) \div 2
FloorHalf(n) == n \div 2

\* the symbol list an exchange with n instruments returns
Listing(n) == [i \in 1..n |-> i]


\* the module-level initialiser of `state`
DefaultSource == [allSymbols |-> <<>>, lastIndex |-> 0, lastRun |-> 0]
DefaultState == [binance |-> DefaultSource, okx |-> DefaultSource]

EmptyBatch == [binance |-> <<>>, okx |-> <<>>]

\* no state file (fs.existsSync is false)
NoFile == [exists |-> FALSE, data |-> DefaultState]

(* ----------------------------- loadState ------------------------------ *)

\* variant of the load that does not restore the cursor
LoadedSourceNoCursor(saved) ==
    [allSymbols |-> saved.allSymbols,
     lastIndex  |-> 0,
     lastRun    |-> saved.lastRun]

\* a parsed JSON object without any key
EmptyObject == [key \in {} |-> 0]

\* `object?.key || fallback`: a key the object lacks gives the fallback (and so
\* does a saved 0, which is the fallback of the numeric fields)
FieldOr(object, key, fallback) ==
    IF key \in DOMAIN object THEN object[key] ELSE fallback

\* variant of the load that takes a saved entry only when it is complete
LoadedSourceIfComplete(saved) ==
    IF DOMAIN saved = {"allSymbols", "lastIndex", "lastRun"}
    THEN [allSymbols |-> saved.allSymbols,
          lastIndex  |-> saved.lastIndex,
          lastRun    |-> saved.lastRun]
    ELSE DefaultSource

\* savedState.<exchange>, each field defaulted with `||`
LoadedSource(saved) ==
    [allSymbols |-> FieldOr(saved, "allSymbols", <<>>),
     lastIndex  |-> FieldOr(saved, "lastIndex", 0),
     lastRun    |-> FieldOr(saved, "lastRun", 0)]

\* a file on which the try block of loadState throws, at `throws`:
\* readFileSync on a file that cannot be read, JSON.parse on a text that is
\* not JSON (here the cut-off text of the object `text`), or the read of
\* `savedState.binance` when the text is the JSON `null`
Unreadable(throws, text) == [exists |-> TRUE, data |-> [throws |-> throws, text |-> text]]

Throws(f) == f.exists /\ "throws" \in DOMAIN f.data

\* the six assignments of the try block on the parsed object
Assigned(savedState) ==
    [binance |-> LoadedSource(FieldOr(savedState, "binance", EmptyObject)),
     okx     |-> LoadedSource(FieldOr(savedState, "okx", EmptyObject))]

\* variant of the load that takes from a damaged text the entries it still holds
loadStateSalvaging(f) ==
    IF ~f.exists THEN DefaultState
    ELSE IF Throws(f) THEN Assigned(f.data.text)
    ELSE Assigned(f.data)

\* all three throws happen before the first assignment; the catch logs and
\* falls through to the statement that sets `state` to the defaults
loadState(f) ==
    IF ~f.exists THEN DefaultState
    ELSE IF Throws(f) THEN DefaultState
    ELSE Assigned(f.data)

\* a saved state with both entries, and the files that cannot be loaded
SavedEntry == [allSymbols |-> Listing(MaxSavedSyms), lastIndex |-> 1, lastRun |-> twentyFourHours]

UnreadableFiles ==
    {Unreadable("readFileSync", [binance |-> SavedEntry, okx |-> SavedEntry]),
     Unreadable("JSON.parse", [binance |-> SavedEntry, okx |-> SavedEntry]),
     Unreadable("JSON.parse", [binance |-> SavedEntry]),
     Unreadable("savedState.binance", EmptyObject)}

\* the objects a state file can hold: per exchange no entry, or an entry with
\* any of its three fields
SavedField(key, allSymbols, lastIndex, lastRun) ==
    IF key = "allSymbols" THEN allSymbols
    ELSE IF key = "lastIndex" THEN lastIndex
    ELSE lastRun

SavedEntries ==
    {[key \in keys |-> SavedField(key, allSymbols, lastIndex, lastRun)] :
        keys \in SUBSET {"allSymbols", "lastIndex", "lastRun"},
        allSymbols \in {<<>>, Listing(MaxSavedSyms)},
        lastIndex \in {0, 1},
        lastRun \in {0, twentyFourHours}}

SavedStates ==
    {[s \in present |-> IF s = "binance" THEN binance ELSE okx] :
        present \in SUBSET Sources, binance \in SavedEntries, okx \in SavedEntries}

StateFiles == {NoFile} \cup {[exists |-> TRUE, data |-> saved] : saved \in SavedStates}

(* ------------------- shouldRefreshSymbols / getAllSymbols -------------- *)

\* an exchange's answer to the symbol-list request: the symbols that pass the
\* filter, or a failed request
Answer(symbols) == [ok |-> TRUE, symbols |-> symbols]
RequestFailed == [ok |-> FALSE, symbols |-> <<>>]
Responses == {Answer(Listing(n)) : n \in 0..MaxSyms} \cup {RequestFailed}

\* getBinanceSymbols / getOKXSymbols: the filtered list, [] from the catch
getSymbols(response) == IF response.ok THEN response.symbols ELSE <<>>

\* what a run knows of its symbol-list requests
NoFetch == [binance |-> "none", okx |-> "none"]
Requested(response) == IF response.ok THEN "ok" ELSE "failed"

\* variant of the test that refreshes when the lists are exactly 24 hours old
shouldRefreshSymbolsAtTTL(st, t) ==
    \/ Len(st.binance.allSymbols) = 0
    \/ Len(st.okx.allSymbols) = 0
    \/ (t - st.binance.lastRun) >= twentyFourHours
    \/ (t - st.okx.lastRun) >= twentyFourHours

shouldRefreshSymbols(st, t) ==
    \/ Len(st.binance.allSymbols) = 0
    \/ Len(st.okx.allSymbols) = 0
    \/ (t - st.binance.lastRun) > twentyFourHours
    \/ (t - st.okx.lastRun) > twentyFourHours

\* variant of the refresh that starts the new lists at their head
getAllSymbolsFromHead(st, binanceSymbols, okxSymbols, t) ==
    [binance |-> [allSymbols |-> binanceSymbols, lastIndex |-> 0, lastRun |-> t],
     okx     |-> [allSymbols |-> okxSymbols, lastIndex |-> 0, lastRun |-> t]]

\* binanceSymbols / okxSymbols are what the two fetches returned
getAllSymbols(st, binanceSymbols, okxSymbols, t) ==
    [binance |-> [st.binance EXCEPT !.allSymbols = binanceSymbols, !.lastRun = t],
     okx     |-> [st.okx EXCEPT !.allSymbols = okxSymbols, !.lastRun = t]]

(* ------------------------ getSymbolsForThisRun ------------------------ *)

\* variant of the loop that clamps the index at the end of the list instead of wrapping
RECURSIVE PushLoopClamped(_, _, _, _)
PushLoopClamped(src, i, count, acc) ==
    IF i < count
    THEN PushLoopClamped(src, i + 1, count,
                         Append(acc, src.allSymbols[Min(src.lastIndex + i,
                                                        Len(src.allSymbols) - 1) + 1]))
    ELSE acc

\* variant of the loop that reads the symbol at the cursor in every iteration
PushLoopRepeating(src, i, count, acc) ==
    [k \in 1..count |-> src.allSymbols[(src.lastIndex % Len(src.allSymbols)) + 1]]

\* the loop `for (i = 0; i < count; i++) push(allSymbols[(lastIndex + i) % length])`
RECURSIVE PushLoop(_, _, _, _)
PushLoop(src, i, count, acc) ==
    IF i < count
    THEN PushLoop(src, i + 1, count,
                  Append(acc, src.allSymbols[((src.lastIndex + i) % Len(src.allSymbols)) + 1]))
    ELSE acc

binanceCount(st) == Min(CeilHalf(pairsPerRun), Len(st.binance.allSymbols))

okxCount(st) == Min(FloorHalf(pairsPerRun), Len(st.okx.allSymbols))
remaining(st) == pairsPerRun - (binanceCount(st) + okxCount(st))

\* `binanceCount += remaining` / `okxCount += remaining` assign to a const binding:
\* either branch raises a TypeError
RedistributionThrows(st) ==
    /\ remaining(st) > 0
    /\ \/ Len(st.binance.allSymbols) > binanceCount(st)
       \/ Len(st.okx.allSymbols) > okxCount(st)

getSymbolsForThisRun(st) ==
    IF RedistributionThrows(st)
    THEN [threw |-> TRUE, symbols |-> EmptyBatch]
    ELSE [threw |-> FALSE,
          symbols |-> [binance |-> PushLoop(st.binance, 0, binanceCount(st), <<>>),
                       okx     |-> PushLoop(st.okx, 0, okxCount(st), <<>>)]]

(* ------------------------- updateStateIndexes ------------------------- *)

\* variant of the advance that gives each exchange the other one's count
updateStateIndexesCrossed(st, bCount, oCount) ==
    [binance |-> [st.binance EXCEPT !.lastIndex =
                     IF Len(st.binance.allSymbols) > 0
                     THEN (st.binance.lastIndex + oCount) % Len(st.binance.allSymbols)
                     ELSE st.binance.lastIndex],
     okx     |-> [st.okx EXCEPT !.lastIndex =
                     IF Len(st.okx.allSymbols) > 0
                     THEN (st.okx.lastIndex + bCount) % Len(st.okx.allSymbols)
                     ELSE st.okx.lastIndex]]

\* variant of the advance that counts one symbol too few
AdvancedIndexShort(src, count) ==
    IF Len(src.allSymbols) > 0 /\ count > 0
    THEN (src.lastIndex + count - 1) % Len(src.allSymbols)
    ELSE src.lastIndex

AdvancedIndex(src, count) ==
    IF Len(src.allSymbols) > 0
    THEN (src.lastIndex + count) % Len(src.allSymbols)
    ELSE src.lastIndex

updateStateIndexes(st, bCount, oCount) ==
    [binance |-> [st.binance EXCEPT !.lastIndex = AdvancedIndex(st.binance, bCount)],
     okx     |-> [st.okx EXCEPT !.lastIndex = AdvancedIndex(st.okx, oCount)]]

(* ------------------------------ saveState ----------------------------- *)

\* JSON.stringify(state) written to the state file
saveState(st) == [exists |-> TRUE, data |-> st]

\* variant of a failed write that has replaced the file before the error is raised
saveStateFailedWritten(f, st) == saveState(st)

\* writeFileSync throws: the error is caught and logged, the file is as it was
saveStateFailed(f, st) == f

(* ------------------------------ observer ------------------------------ *)

Observing == countCap > 0

Range(seq) == {seq[i] : i \in 1..Len(seq)}

Counted(counts, symbols) ==
    [s \in Sources |->
        [k \in DOMAIN counts[s] |->
            IF k \in Range(symbols[s]) THEN Min(counts[s][k] + 1, countCap)
            ELSE counts[s][k]]]

Selected == pc \in {"check", "notify", "update", "save"}
            \/ (pc = "end" /\ outcome \in {"saved", "saveFailed"})

\* the observer's record of a run that ends now with outcome `how`
RunEnds(how) ==
    IF Observing /\ Selected
    THEN /\ lastBatch' = batch
         /\ lastSaved' = (how = "saved")
         /\ runsDone' = IF how = "saved" THEN Min(runsDone + 1, MaxRuns) ELSE runsDone
    ELSE UNCHANGED <<lastBatch, lastSaved, runsDone>>

(* ------------------------------ actions ------------------------------- *)

\* a new process starts: the module initialiser runs, then monitor() is called
StartRun ==
    /\ pc = "idle"
    /\ pc' = "load"
    /\ state' = DefaultState
    /\ batch' = EmptyBatch
    /\ found' = FALSE
    /\ delivered' = FALSE
    /\ fetched' = NoFetch
    /\ UNCHANGED <<file, outcome, now, exch, countCap, extVars, obsVars>>

\* as StartRun, for a bounded number of counted runs
StartCountedRun ==
    /\ runsDone < MaxRuns
    /\ StartRun

LoadState ==
    /\ pc = "load"
    /\ state' = loadState(file)
    /\ pc' = "refresh"
    /\ UNCHANGED <<file, batch, found, delivered, outcome, now, exch, countCap, extVars, fetched, obsVars>>

\* `if (shouldRefreshSymbols()) await getAllSymbols()` with the outcomes of the
\* two exchange requests
RefreshWith(binanceResponse, okxResponse) ==
    /\ pc = "refresh"
    /\ IF shouldRefreshSymbols(state, now)
       THEN /\ state' = getAllSymbols(state, getSymbols(binanceResponse),
                                      getSymbols(okxResponse), now)
            /\ fetched' = [binance |-> Requested(binanceResponse),
                           okx     |-> Requested(okxResponse)]
       ELSE /\ state' = state
            /\ fetched' = NoFetch
    /\ pc' = "select"
    /\ UNCHANGED <<file, batch, found, delivered, outcome, now, exch, countCap, extVars, obsVars>>

\* each exchange answers with any listing, or its request fails
Refresh ==
    \E binanceResponse \in Responses, okxResponse \in Responses :
        RefreshWith(binanceResponse, okxResponse)

\* the exchanges answer with their fixed listing
RefreshFixed == RefreshWith(Answer(exch.binance), Answer(exch.okx))

Select ==
    /\ pc = "select"
    /\ LET r == getSymbolsForThisRun(state) IN
         IF r.threw
         THEN /\ pc' = "end"
              /\ outcome' = "threw"
              /\ UNCHANGED <<batch, selCount>>
         ELSE IF Len(r.symbols.binance) = 0 /\ Len(r.symbols.okx) = 0
         THEN /\ pc' = "end"
              /\ outcome' = "noSymbols"
              /\ UNCHANGED <<batch, selCount>>
         ELSE /\ pc' = "check"
              /\ batch' = r.symbols
              /\ selCount' = IF Observing THEN Counted(selCount, r.symbols) ELSE selCount
              /\ UNCHANGED outcome
    /\ UNCHANGED <<file, state, found, delivered, now, exch, countCap, extVars, fetched,
                   runsDone, lastBatch, lastSaved>>

\* variant of the check that moves the cursor while the batch is evaluated
CheckAdvancing ==
    /\ pc = "check"
    /\ \E f \in BOOLEAN : found' = f
    /\ state' = updateStateIndexes(state, Len(batch.binance), Len(batch.okx))
    /\ pc' = "notify"
    /\ UNCHANGED <<file, batch, delivered, outcome, now, exch, countCap, extVars, fetched, obsVars>>

\* Promise.all of the two checkExchange calls: some or no spikes
Check ==
    /\ pc = "check"
    /\ \E f \in BOOLEAN : found' = f
    /\ pc' = "notify"
    /\ UNCHANGED <<file, state, batch, delivered, outcome, now, exch, countCap, extVars, fetched, obsVars>>

\* variant of the notification whose failed request is not caught: the error
\* reaches the catch of monitor()
NotifyUncaught ==
    /\ pc = "notify"
    /\ \E ok \in BOOLEAN :
         /\ delivered' = ok
         /\ pc' = IF ok THEN "update" ELSE "end"
         /\ outcome' = IF ok THEN outcome ELSE "threw"
    /\ UNCHANGED <<file, state, batch, found, now, exch, countCap, extVars, fetched, obsVars>>

\* with spikes, sendServerChanNotifications posts them and catches and logs a
\* failed post; without spikes the post of line 90 names the undefined
\* `serverChan`, and the ReferenceError is caught and logged by its own try
Notify ==
    /\ pc = "notify"
    /\ \E ok \in (IF found THEN BOOLEAN ELSE {FALSE}) : delivered' = ok
    /\ pc' = "update"
    /\ UNCHANGED <<file, state, batch, found, outcome, now, exch, countCap, extVars, fetched, obsVars>>

\* variant of the update that advances the cursor only after a run with spikes
UpdateIfFound ==
    /\ pc = "update"
    /\ state' = IF found
                THEN updateStateIndexes(state, Len(batch.binance), Len(batch.okx))
                ELSE state
    /\ pc' = "save"
    /\ UNCHANGED <<file, batch, found, delivered, outcome, now, exch, countCap, extVars, fetched, obsVars>>

Update ==
    /\ pc = "update"
    /\ state' = updateStateIndexes(state, Len(batch.binance), Len(batch.okx))
    /\ pc' = "save"
    /\ UNCHANGED <<file, batch, found, delivered, outcome, now, exch, countCap, extVars, fetched, obsVars>>

SaveOk ==
    /\ pc = "save"
    /\ file' = saveState(state)
    /\ pc' = "end"
    /\ outcome' = "saved"
    /\ UNCHANGED <<state, batch, found, delivered, now, exch, countCap, extVars, fetched, obsVars>>

\* variant of the failed save whose error is not caught by saveState: it
\* reaches the catch of monitor()
SaveFailUncaught ==
    /\ pc = "save"
    /\ file' = saveStateFailed(file, state)
    /\ pc' = "end"
    /\ outcome' = "threw"
    /\ UNCHANGED <<state, batch, found, delivered, now, exch, countCap, extVars, fetched, obsVars>>

\* writeFileSync throws; saveState catches and logs
SaveFail ==
    /\ pc = "save"
    /\ file' = saveStateFailed(file, state)
    /\ pc' = "end"
    /\ outcome' = "saveFailed"
    /\ UNCHANGED <<state, batch, found, delivered, now, exch, countCap, extVars, fetched, obsVars>>

\* the process's memory is gone when it exits
Exited ==
    /\ pc' = "idle"
    /\ state' = DefaultState
    /\ batch' = EmptyBatch
    /\ found' = FALSE
    /\ delivered' = FALSE
    /\ fetched' = NoFetch

\* the exit status of a process whose monitor() has returned: the script never
\* calls process.exit and monitor() catches every error, so the pending
\* promise settles and the process ends with status 0 however the run ended
exitStatus(how) == 0

\* monitor() returns and the process exits
Finish ==
    /\ pc = "end"
    /\ Exited
    /\ RunEnds(outcome)
    /\ UNCHANGED <<file, outcome, now, exch, countCap, extVars, selCount>>

\* the process is killed at an await or between two statements
Crash ==
    /\ pc \in {"load", "refresh", "select", "check", "notify", "update", "save"}
    /\ Exited
    /\ outcome' = "crashed"
    /\ RunEnds("crashed")
    /\ UNCHANGED <<file, now, exch, countCap, extVars, selCount>>

Tick ==
    /\ pc = "idle"
    /\ fullPc = "idle"
    /\ now < MaxNow
    /\ now' = now + 1
    /\ UNCHANGED <<file, state, pc, batch, found, delivered, outcome, exch,
                   countCap, extVars, fetched, obsVars>>

(* ------------------- the symbol list of an exchange -------------------- *)

\* no function is under evaluation
NoInput == [kind |-> "none"]
NoResult == [fn |-> "none"]

\* the symbol names of the instruments, in the order of String comparison
Names == <<"ADAUSDT", "BTCUSDC", "BTCUSDT", "BTCUSDT_260327", "ETHUSDT">>

NameRank(symbol) == CHOOSE i \in 1..Len(Names) : Names[i] = symbol

\* symbol.includes('_')
IncludesUnderscore(symbol) == symbol = "BTCUSDT_260327"

\* the instruments an exchangeInfo answer may list: a name fixes the quote
\* asset and the contract type, the status varies
Instrument(symbol, status) ==
    [symbol       |-> symbol,
     quoteAsset   |-> IF symbol = "BTCUSDC" THEN "USDC" ELSE "USDT",
     contractType |-> IF IncludesUnderscore(symbol) THEN "CURRENT_QUARTER" ELSE "PERPETUAL",
     status       |-> status]

Instruments == {Instrument(Names[i], st) : i \in 1..Len(Names), st \in {"TRADING", "SETTLING"}}

\* .map(s => s.symbol)
RECURSIVE MapSymbol(_)
MapSymbol(list) ==
    IF list = <<>> THEN <<>> ELSE <<list[1].symbol>> \o MapSymbol(Tail(list))

\* monitor-all-pairs-rotating.js getBinanceSymbols on response.data.symbols
IsPerpetualTrading(s) == s.contractType = "PERPETUAL" /\ s.status = "TRADING"

getBinanceSymbols(symbols) == MapSymbol(SelectSeq(symbols, IsPerpetualTrading))

\* Array.prototype.sort() on symbol names: insertion into a sorted list
RECURSIVE InsertSorted(_, _)
InsertSorted(symbol, sorted) ==
    IF sorted = <<>> THEN <<symbol>>
    ELSE IF NameRank(symbol) <= NameRank(sorted[1]) THEN <<symbol>> \o sorted
    ELSE <<sorted[1]>> \o InsertSorted(symbol, Tail(sorted))

RECURSIVE sort(_)
sort(list) == IF list = <<>> THEN <<>> ELSE InsertSorted(list[1], sort(Tail(list)))

\* binance_alert.js getTradableSymbols on response.data.symbols
IsTradableSymbol(s) ==
    /\ s.quoteAsset = "USDT"
    /\ s.contractType = "PERPETUAL"
    /\ s.status = "TRADING"
    /\ ~IncludesUnderscore(s.symbol)

getTradableSymbols(symbols) == sort(MapSymbol(SelectSeq(symbols, IsTradableSymbol)))

\* the sequences of at most n different elements of a set
RECURSIVE Listings(_, _)
Listings(set, n) ==
    IF n = 0 THEN {<<>>}
    ELSE LET shorter == Listings(set, n - 1) IN
         shorter \cup {Append(l, x) : l \in shorter, x \in set}

HasNoRepeatedSymbol(list) ==
    \A i, j \in 1..Len(list) : list[i].symbol = list[j].symbol => i = j

\* an exchangeInfo answer: at most MaxListed instruments, each symbol once
ExchangeInfos == {l \in Listings(Instruments, MaxListed) : HasNoRepeatedSymbol(l)}

\* the same instruments in another order
IsReordering(a, b) ==
    /\ Len(a) = Len(b)
    /\ \A i \in 1..Len(a) : \E j \in 1..Len(b) : a[i] = b[j]

\* two refreshes of the rotating monitor against the same instruments
GetBinanceSymbols ==
    /\ result = NoResult
    /\ input.kind = "exchangeInfo"
    /\ result' = [fn |-> "getBinanceSymbols",
                  symbols |-> getBinanceSymbols(input.symbols),
                  again   |-> getBinanceSymbols(input.reordered)]
    /\ UNCHANGED <<monitorVars, fullVars, now, input, procs>>

\* two refreshes of the hourly alert against the same instruments
GetTradableSymbols ==
    /\ result = NoResult
    /\ input.kind = "exchangeInfo"
    /\ result' = [fn |-> "getTradableSymbols",
                  symbols |-> getTradableSymbols(input.symbols),
                  again   |-> getTradableSymbols(input.reordered)]
    /\ UNCHANGED <<monitorVars, fullVars, now, input, procs>>

(* --------------------------- spike detection --------------------------- *)

\* JavaScript numbers: volumes are integers, a quotient is a fraction with a
\* positive denominator, or Infinity, -Infinity or NaN after a division by zero
Fraction(num, den) == [kind |-> "number", num |-> num, den |-> den]
Infinity == [kind |-> "Infinity"]
NegInfinity == [kind |-> "-Infinity"]
NaN == [kind |-> "NaN"]

\* a / b
Divide(a, b) ==
    IF b > 0 THEN Fraction(a, b)
    ELSE IF b < 0 THEN Fraction(0 - a, 0 - b)
    ELSE IF a > 0 THEN Infinity
    ELSE IF a < 0 THEN NegInfinity
    ELSE NaN

\* a threshold argument: a number, or undefined when the configuration has no such key
Threshold(value) == [defined |-> TRUE, value |-> value]
Undefined == [defined |-> FALSE, value |-> 0]

\* variant of the comparison that is strict
GreaterThan(x, threshold) ==
    /\ threshold.defined
    /\ \/ x.kind = "Infinity"
       \/ x.kind = "number" /\ x.num > threshold.value * x.den

\* `x >= threshold`: false when the threshold is undefined or x is NaN
GreaterOrEqual(x, threshold) ==
    /\ threshold.defined
    /\ \/ x.kind = "Infinity"
       \/ x.kind = "number" /\ x.num >= threshold.value * x.den

\* the candle sequence a request returned (an array), or no value
Data(candles) == [isArray |-> TRUE, candles |-> candles]
NullData == [isArray |-> FALSE, candles |-> <<>>]

null == [type |-> "null"]

\* variant of detectSpike without the test of the two volumes
detectSpikeUnguarded(data, threshold, type) ==
    IF ~data.isArray \/ Len(data.candles) < 2 THEN null
    ELSE LET current  == data.candles[Len(data.candles)]
             previous == data.candles[Len(data.candles) - 1]
             ratio    == Divide(current.volume, previous.volume)
         IN  IF GreaterOrEqual(ratio, threshold)
             THEN [type |-> type, timestamp |-> current.time,
                   currentVolume |-> current.volume,
                   compareValue |-> Fraction(previous.volume, 1), ratio |-> ratio]
             ELSE null

detectSpike(data, threshold, type) ==
    IF ~data.isArray \/ Len(data.candles) < 2 THEN null
    ELSE LET current  == data.candles[Len(data.candles)]
             previous == data.candles[Len(data.candles) - 1]
             ratio    == Divide(current.volume, previous.volume)
         IN  IF current.volume <= 0 \/ previous.volume <= 0 THEN null
             ELSE IF GreaterOrEqual(ratio, threshold)
             THEN [type |-> type, timestamp |-> current.time,
                   currentVolume |-> current.volume,
                   compareValue |-> Fraction(previous.volume, 1), ratio |-> ratio]
             ELSE null

\* data.slice(from, to) of JavaScript (indices from 0, `to` excluded) on a sequence
slice(data, from, to) == SubSeq(data, from + 1, Min(to, Len(data)))

\* .reduce((a, b) => a + b, 0)
RECURSIVE reduceSum(_)
reduceSum(data) == IF data = <<>> THEN 0 ELSE data[1] + reduceSum(Tail(data))

\* variant of calculateMA whose windows end one element earlier
calculateMAExclusive(data, period) ==
    [i \in 1..(Len(data) - (period - 1)) |->
        Fraction(reduceSum(slice(data, IF i > 1 THEN i - 2 ELSE 0, i - 2 + period)), period)]

\* data.slice(period - 1).map((_, i) => sum of data.slice(i, i + period) / period)
calculateMA(data, period) ==
    [i \in 1..(Len(data) - (period - 1)) |->
        Fraction(reduceSum(slice(data, i - 1, i - 1 + period)), period)]

\* data.map(d => d.volume)
RECURSIVE MapVolume(_)
MapVolume(candles) ==
    IF candles = <<>> THEN <<>> ELSE <<candles[1].volume>> \o MapVolume(Tail(candles))

detectMASpike(data, threshold, type) ==
    IF ~data.isArray \/ Len(data.candles) < 21 THEN null
    ELSE LET volumes  == MapVolume(data.candles)
             current  == volumes[Len(volumes)]
             maValues == calculateMA(volumes, 20)
             ma       == maValues[Len(maValues)]
             ratio    == Divide(current * ma.den, ma.num)
         IN  IF current <= 0 \/ ma.num <= 0 THEN null
             ELSE IF GreaterOrEqual(ratio, threshold)
             THEN [type |-> type, timestamp |-> data.candles[Len(data.candles)].time,
                   currentVolume |-> current, compareValue |-> ma, ratio |-> ratio]
             ELSE null

\* monitor-all-pairs.js, BianvolMonitor: config.thresholds and config.thresholds[type]
thresholds == [hourSpike |-> 8, fourHourSpike |-> 5, hourMA |-> 8, fourHourMA |-> 5,
               minVolume |-> 50000000]

ThresholdOf(type) ==
    IF type \in DOMAIN thresholds THEN Threshold(thresholds[type]) ELSE Undefined

\* BianvolMonitor.detectSpikes
detectSpikes(data, type) ==
    IF ~data.isArray \/ Len(data.candles) < 2 THEN <<>>
    ELSE LET current == data.candles[Len(data.candles)]
             prev    == data.candles[Len(data.candles) - 1]
             ratio   == Divide(current.volume, prev.volume)
         IN  IF GreaterOrEqual(ratio, ThresholdOf(type))
             THEN <<[type |-> type, volume |-> current.volume, ratio |-> ratio]>>
             ELSE <<>>

\* BianvolMonitor.detectMASpikes
detectMASpikes(data, type) ==
    IF ~data.isArray \/ Len(data.candles) < 21 THEN <<>>
    ELSE LET volumes == MapVolume(data.candles)
             current == volumes[Len(volumes)]
             sum     == reduceSum(slice(volumes, Len(volumes) - 20, Len(volumes)))
             ratio   == Divide(current * 20, sum)
         IN  IF GreaterOrEqual(ratio, ThresholdOf(type))
             THEN <<[type |-> type, volume |-> current, ratio |-> ratio]>>
             ELSE <<>>

\* a candle sequence of the given length: the oldest candle, equal candles,
\* the previous candle and the current one, from the oldest to the newest
Candles(length, oldest, fill, previous, current) ==
    [i \in 1..length |->
        [time |-> i,
         volume |-> IF i = length THEN current
                    ELSE IF i = length - 1 THEN previous
                    ELSE IF i = 1 THEN oldest
                    ELSE fill]]

Lengths == 0..2 \cup (MaxCandles - 1)..MaxCandles
Volumes == {0 - 1, 0, 1, 8, 12, 1000, 7999, 8000}
OldestVolumes == {0, 1000}
FillVolumes == {0, 1}
ThresholdArguments == {Threshold(0), Threshold(5), Threshold(8), Undefined}

CandleInputs ==
    {Data(Candles(length, oldest, fill, previous, current)) :
        length \in Lengths, oldest \in OldestVolumes, fill \in FillVolumes,
        previous \in Volumes, current \in Volumes}
    \cup {NullData}

\* one call of a detection function on the input
Detects(fn, type, returned) ==
    /\ result = NoResult
    /\ input.kind = "candles"
    /\ result' = [fn |-> fn, type |-> type, returned |-> returned]
    /\ UNCHANGED <<monitorVars, fullVars, now, input, procs>>

DetectSpike ==
    \E type \in {"hour", "fourhour"} :
        Detects("detectSpike", type, detectSpike(input.data, input.threshold, type))

DetectMASpike ==
    \E type \in {"hour-ma", "fourhour-ma"} :
        Detects("detectMASpike", type, detectMASpike(input.data, input.threshold, type))

DetectSpikes ==
    \E type \in {"hour", "fourhour"} :
        Detects("detectSpikes", type, detectSpikes(input.data, type))

DetectMASpikes ==
    \E type \in {"hour-ma", "fourhour-ma"} :
        Detects("detectMASpikes", type, detectMASpikes(input.data, type))

(* ----------------------------- checkExchange --------------------------- *)

\* config.hourSpikeThreshold, fourHourSpikeThreshold, hourMaThreshold,
\* fourHourMaThreshold and minQuoteVolume
hourSpikeThreshold == 8
fourHourSpikeThreshold == 5
hourMaThreshold == 8
fourHourMaThreshold == 5
minQuoteVolume == 1000000

\* what getKlineData did: it returned the candles, or its request was rejected
Returned(candles) == [ok |-> TRUE, data |-> Data(candles)]
Rejected == [ok |-> FALSE, data |-> NullData]

\* what getDailyKline returned: the newest daily candle, whose quoteVolume is a
\* number or NaN, or null after a failed request
DailyKline(quoteVolume) == [isNull |-> FALSE, quoteVolume |-> quoteVolume]
NullDaily == [isNull |-> TRUE, quoteVolume |-> NaN]

\* `x < n`: false when x is NaN
LessThan(x, n) == x.kind = "number" /\ x.num < n * x.den

\* variant of the liquidity test that only skips symbols without any turnover
IsBelowMinimumOnlyZero(dailyData) ==
    ~dailyData.isNull /\ LessThan(dailyData.quoteVolume, 1)

\* variant of the liquidity test that also skips a symbol without daily candle
IsBelowMinimumOrMissing(dailyData) ==
    dailyData.isNull \/ LessThan(dailyData.quoteVolume, minQuoteVolume)

\* `dailyData && dailyData.quoteVolume < config.minQuoteVolume`
IsBelowMinimum(dailyData) ==
    ~dailyData.isNull /\ LessThan(dailyData.quoteVolume, minQuoteVolume)

\* `dailyData?.quoteVolume || 0`
dailyQuoteVolume(dailyData) ==
    IF dailyData.isNull \/ dailyData.quoteVolume.kind = "NaN" THEN Fraction(0, 1)
    ELSE dailyData.quoteVolume

\* `if (spike) { spike.dailyQuoteVolume = ...; spikes.push({...spike, exchange, symbol}) }`
push(spikes, spike, dailyData, exchange, symbol) ==
    IF spike = null THEN spikes
    ELSE Append(spikes, [type |-> spike.type, timestamp |-> spike.timestamp,
                         currentVolume |-> spike.currentVolume,
                         compareValue |-> spike.compareValue, ratio |-> spike.ratio,
                         dailyQuoteVolume |-> dailyQuoteVolume(dailyData),
                         exchange |-> exchange, symbol |-> symbol])

\* variant of the four detections that gives up on a symbol at the first rule
\* without a finding
detectAllUntilNull(hourData, fourHourData, dailyData, exchange, symbol) ==
    LET hourSpike == detectSpike(hourData, Threshold(hourSpikeThreshold), "hour")
        hourMASpike == detectMASpike(hourData, Threshold(hourMaThreshold), "hour-ma")
        fourHourSpike == detectSpike(fourHourData, Threshold(fourHourSpikeThreshold), "fourhour")
        fourHourMASpike == detectMASpike(fourHourData, Threshold(fourHourMaThreshold),
                                         "fourhour-ma")
        s1 == push(<<>>, hourSpike, dailyData, exchange, symbol)
        s2 == push(s1, hourMASpike, dailyData, exchange, symbol)
        s3 == push(s2, fourHourSpike, dailyData, exchange, symbol)
        s4 == push(s3, fourHourMASpike, dailyData, exchange, symbol)
    IN  IF hourSpike = null THEN s1
        ELSE IF hourMASpike = null THEN s2
        ELSE IF fourHourSpike = null THEN s3
        ELSE s4

\* the four detections of one symbol, in the order of the code
detectAll(hourData, fourHourData, dailyData, exchange, symbol) ==
    LET hourSpike == detectSpike(hourData, Threshold(hourSpikeThreshold), "hour")
        hourMASpike == detectMASpike(hourData, Threshold(hourMaThreshold), "hour-ma")
        fourHourSpike == detectSpike(fourHourData, Threshold(fourHourSpikeThreshold), "fourhour")
        fourHourMASpike == detectMASpike(fourHourData, Threshold(fourHourMaThreshold),
                                         "fourhour-ma")
        s1 == push(<<>>, hourSpike, dailyData, exchange, symbol)
        s2 == push(s1, hourMASpike, dailyData, exchange, symbol)
        s3 == push(s2, fourHourSpike, dailyData, exchange, symbol)
    IN  push(s3, fourHourMASpike, dailyData, exchange, symbol)

\* one iteration of the loop of checkExchange: the spikes it pushes, and
\* whether its catch logged an error
checkSymbol(hour, fourHour, dailyData, exchange, symbol) ==
    IF ~hour.ok \/ ~fourHour.ok
    THEN [caught |-> TRUE, spikes |-> <<>>]
    ELSE IF IsBelowMinimum(dailyData)
    THEN [caught |-> FALSE, spikes |-> <<>>]
    ELSE [caught |-> FALSE,
          spikes |-> detectAll(hour.data, fourHour.data, dailyData, exchange, symbol)]

\* the candle sequences and daily candles of the checked symbol
KlineResults ==
    {Returned(Candles(length, 0, 1, previous, current)) :
        length \in Lengths, previous \in {0, 1}, current \in {1, 8, 12}}
    \cup {Rejected}

DailyResults ==
    {DailyKline(Fraction(v, 1)) : v \in {0, minQuoteVolume - 1, minQuoteVolume,
                                         minQuoteVolume + 1}}
    \cup {DailyKline(NaN), NullDaily}

CheckSymbol ==
    /\ result = NoResult
    /\ input.kind = "symbol"
    /\ result' = [fn |-> "checkExchange"]
                   @@ checkSymbol(input.hour, input.fourHour, input.dailyData,
                                  input.exchange, input.symbol)
    /\ UNCHANGED <<monitorVars, fullVars, now, input, procs>>

(* ------------------- checkExchange, symbol by symbol ------------------- *)

\* `const batchSize = 5` of the checkExchange of the all-pairs scripts
batchSize == 5

Scripts == {"rotating", "part_001", "part_002"}

\* the symbols whose evaluations one loop iteration starts together: the
\* rotating script awaits one symbol per iteration of its for-of loop, the
\* all-pairs scripts start Promise.all over symbols.slice(i, i + batchSize)
groupSize(script) == IF script = "rotating" THEN 1 ELSE batchSize

\* variant of the slice that takes one symbol more than the loop advances by
sliceGroupWide(script, i, length) ==
    {k \in 1..length : i < k /\ k <= i + groupSize(script) + 1}

\* positions (from 1) of symbols.slice(i, i + size)
sliceGroup(script, i, length) ==
    {k \in 1..length : i < k /\ k <= i + groupSize(script)}

\* whether the iteration that started at i ends with a pending sleep:
\* part_001 sleeps `if (i + batchSize < symbols.length)`, part_002 after every
\* group, the rotating script never
sleepsAfter(script, i, length) ==
    CASE script = "part_001" -> i + batchSize < length
      [] script = "part_002" -> TRUE
      [] OTHER               -> FALSE

\* the loop at the head of the iteration for index i: it ends, or it starts
\* the evaluations of the next group
loopAt(script, i, length, started) ==
    IF i < length
    THEN [fn |-> "checkExchange", i |-> i, phase |-> "group",
          outstanding |-> sliceGroup(script, i, length),
          started |-> [k \in 1..length |->
                          started[k] + IF k \in sliceGroup(script, i, length) THEN 1 ELSE 0]]
    ELSE [fn |-> "checkExchange", i |-> i, phase |-> "done",
          outstanding |-> {}, started |-> started]

\* checkExchange(exchange, symbols) is called
EvaluateStart ==
    /\ result = NoResult
    /\ input.kind = "batch"
    /\ result' = loopAt(input.script, 0, input.length, [k \in 1..input.length |-> 0])
    /\ UNCHANGED <<monitorVars, fullVars, now, input, procs>>

\* the evaluation of one symbol settles: its spikes, null, or a caught error
EvaluateSettle ==
    /\ result # NoResult
    /\ input.kind = "batch"
    /\ result.phase = "group"
    /\ \E k \in result.outstanding :
         result' = [result EXCEPT !.outstanding = @ \ {k}]
    /\ UNCHANGED <<monitorVars, fullVars, now, input, procs>>

\* every evaluation of the group has settled: the await returns, the results
\* are collected and the loop sleeps or goes on
EvaluateGroupEnd ==
    /\ result # NoResult
    /\ input.kind = "batch"
    /\ result.phase = "group"
    /\ result.outstanding = {}
    /\ result' = IF sleepsAfter(input.script, result.i, input.length)
                 THEN [result EXCEPT !.phase = "sleep"]
                 ELSE loopAt(input.script, result.i + groupSize(input.script),
                             input.length, result.started)
    /\ UNCHANGED <<monitorVars, fullVars, now, input, procs>>

\* the timer of the sleep fires
EvaluateSleepEnd ==
    /\ result # NoResult
    /\ input.kind = "batch"
    /\ result.phase = "sleep"
    /\ result' = loopAt(input.script, result.i + groupSize(input.script),
                        input.length, result.started)
    /\ UNCHANGED <<monitorVars, fullVars, now, input, procs>>

(* ------------------------ loadState on any file ------------------------ *)

\* loadState() on a process whose `state` is the module-level initialiser
LoadStateFile ==
    /\ result = NoResult
    /\ input.kind = "stateFile"
    /\ result' = [fn |-> "loadState", state |-> loadState(input.file)]
    /\ UNCHANGED <<monitorVars, fullVars, now, input, procs>>

(* ---------------------- sendServerChanNotifications -------------------- *)

\* a spike as checkExchange pushes it, reduced to what identifies it
Spike(exchange, symbol, type) == [exchange |-> exchange, symbol |-> symbol, type |-> type]

\* the index in `acc` of the entry of an exchange, 0 when it has none
KeyIndex(acc, exchange) ==
    IF \E i \in 1..Len(acc) : acc[i].exchange = exchange
    THEN CHOOSE i \in 1..Len(acc) : acc[i].exchange = exchange
    ELSE 0

\* variant of the grouping step that keeps only the newest spike of an exchange
groupStepLatest(acc, spike) ==
    LET i == KeyIndex(acc, spike.exchange) IN
    IF i = 0 THEN Append(acc, [exchange |-> spike.exchange, spikes |-> <<spike>>])
    ELSE [acc EXCEPT ![i].spikes = <<spike>>]

\* `if (!acc[spike.exchange]) acc[spike.exchange] = []; acc[spike.exchange].push(spike)`;
\* the object is a sequence of entries in the order the keys were created
groupStep(acc, spike) ==
    LET i == KeyIndex(acc, spike.exchange) IN
    IF i = 0 THEN Append(acc, [exchange |-> spike.exchange, spikes |-> <<spike>>])
    ELSE [acc EXCEPT ![i].spikes = Append(@, spike)]

\* spikes.reduce(step, initial)
RECURSIVE reduceGroups(_, _)
reduceGroups(acc, spikes) ==
    IF spikes = <<>> THEN acc
    ELSE reduceGroups(groupStep(acc, Head(spikes)), Tail(spikes))

\* the axios.post of one exchange: the spikes of its table, the number in its
\* title, and whether the request succeeded
Post(entry, ok) ==
    [exchange |-> entry.exchange, spikes |-> entry.spikes, count |-> Len(entry.spikes),
     delivered |-> ok[entry.exchange]]

\* the requests made by sendServerChanNotifications of the rotating monitor:
\* one per entry of Object.entries(grouped)
sendServerChanNotifications(spikes, ok) ==
    LET grouped == reduceGroups(<<>>, spikes)
    IN  [i \in 1..Len(grouped) |-> Post(grouped[i], ok)]

\* the requests made by sendServerChanNotifications of the all-pairs monitor:
\* `grouped` starts as {binance: [], okx: []} and an entry is posted only
\* `if (exchangeSpikes.length > 0)`
fullSendServerChanNotifications(spikes, ok) ==
    LET grouped == reduceGroups(<<[exchange |-> "binance", spikes |-> <<>>],
                                  [exchange |-> "okx", spikes |-> <<>>]>>, spikes)
        posted == SelectSeq(grouped, LAMBDA entry : Len(entry.spikes) > 0)
    IN  [i \in 1..Len(posted) |-> Post(posted[i], ok)]

\* the spikes one checkExchange call can return: different (symbol, type)
\* pairs of its exchange
SpikesOf(exchange) ==
    LET all == {Spike(exchange, symbol, type) :
                    symbol \in 1..2, type \in {"hour", "hour-ma"}}
    IN  {q \in UNION {[1..n -> all] : n \in 0..MaxSpikes} :
            \A i, j \in 1..Len(q) : q[i] = q[j] => i = j}

\* monitor() of the rotating script calls it `if (allSpikes.length > 0)`
SendServerChanNotifications ==
    /\ result = NoResult
    /\ input.kind = "spikes"
    /\ Len(input.spikes) > 0
    /\ \E ok \in [Sources -> BOOLEAN] :
         result' = [fn |-> "sendServerChanNotifications",
                    calls |-> sendServerChanNotifications(input.spikes, ok)]
    /\ UNCHANGED <<monitorVars, fullVars, now, input, procs>>

\* monitor() of the all-pairs script calls it in every run that checked
FullSendServerChanNotifications ==
    /\ result = NoResult
    /\ input.kind = "spikes"
    /\ \E ok \in [Sources -> BOOLEAN] :
         result' = [fn |-> "fullSendServerChanNotifications",
                    calls |-> fullSendServerChanNotifications(input.spikes, ok)]
    /\ UNCHANGED <<monitorVars, fullVars, now, input, procs>>

(* ------------------ the all-pairs monitor with heartbeat --------------- *)

\* config.heartbeatInterval, in units of 6 hours
heartbeatInterval == 1
\* a duration in clock units, in units of 6 hours
InSixHours(d) == 2 * d

\* the module-level initialiser of `state`
FullDefaultSource == [allSymbols |-> <<>>, lastRun |-> 0]
FullDefaultState ==
    [binance |-> FullDefaultSource,
     okx     |-> FullDefaultSource,
     stats   |-> [totalRuns |-> 0, lastRunTime |-> 0, spikesDetected |-> 0,
                  lastHeartbeat |-> 0]]

FullNoFile == [exists |-> FALSE, data |-> FullDefaultState]

\* savedState.binance || state.binance, and so for okx and stats
fullLoadState(f) == IF f.exists THEN f.data ELSE FullDefaultState

fullGetAllSymbols(st, binanceSymbols, okxSymbols, t) ==
    [st EXCEPT !.binance = [allSymbols |-> binanceSymbols, lastRun |-> t],
               !.okx     = [allSymbols |-> okxSymbols, lastRun |-> t]]

\* a symbol id stands for a USDT contract name when it is positive; the fetch
\* filters keep only such names
IsUSDT(symbol) == symbol > 0

fullGetSymbolsForThisRun(st) ==
    [binance |-> SelectSeq(st.binance.allSymbols, IsUSDT),
     okx     |-> SelectSeq(st.okx.allSymbols, IsUSDT)]

\* `state.binance.lastRun = Date.now(); state.okx.lastRun = Date.now()` before saveState
fullEndOfRun(st, t) == [st EXCEPT !.binance.lastRun = t, !.okx.lastRun = t]

FullResponses == {Answer(Listing(n)) : n \in 0..MaxFullSyms} \cup {RequestFailed}

\* a new process starts and calls monitor()
FullStart ==
    /\ pc = "idle"
    /\ fullPc = "idle"
    /\ fullFile.data.stats.totalRuns < MaxFullRuns
    /\ fullObs.completed < MaxFullRuns
    /\ fullPc' = "load"
    /\ fullState' = FullDefaultState
    /\ fullObs' = [fullObs EXCEPT
                     !.spaced = @ /\ (fullObs.lastStart = 0
                                        \/ now - fullObs.lastStart < twentyFourHours),
                     !.lastStart = now,
                     !.writeFailed = FALSE,
                     !.beat = FALSE]
    /\ UNCHANGED <<monitorVars, fullFile, now, fnVars, procs>>

\* loadState, then the statistics of the run
FullLoad ==
    /\ fullPc = "load"
    /\ fullState' = [fullLoadState(fullFile) EXCEPT !.stats.totalRuns = @ + 1,
                                                    !.stats.lastRunTime = now]
    /\ fullObs' = [fullObs EXCEPT !.fetchedAt = fullObs.savedFetchedAt]
    /\ fullPc' = "refresh"
    /\ UNCHANGED <<monitorVars, fullFile, now, fnVars, procs>>

\* `if (shouldRefreshSymbols()) await getAllSymbols()`
FullRefresh ==
    /\ fullPc = "refresh"
    /\ \E binanceResponse \in FullResponses, okxResponse \in FullResponses :
         IF shouldRefreshSymbols(fullState, now)
         THEN /\ fullState' = fullGetAllSymbols(fullState, getSymbols(binanceResponse),
                                                getSymbols(okxResponse), now)
              /\ fullObs' = [fullObs EXCEPT !.fetchedAt = now]
         ELSE UNCHANGED <<fullState, fullObs>>
    /\ fullPc' = "select"
    /\ UNCHANGED <<monitorVars, fullFile, now, fnVars, procs>>

\* with no symbol at all the run notifies and returns without saving
FullSelect ==
    /\ fullPc = "select"
    /\ LET symbols == fullGetSymbolsForThisRun(fullState) IN
         fullPc' = IF Len(symbols.binance) = 0 /\ Len(symbols.okx) = 0
                   THEN "end" ELSE "check"
    /\ UNCHANGED <<monitorVars, fullFile, fullState, fullObs, now, fnVars, procs>>

\* every symbol is checked in batches; the findings are counted and notified
FullCheck ==
    /\ fullPc = "check"
    /\ \E spikes \in 0..1, posted \in BOOLEAN :
         /\ fullState' = [fullState EXCEPT !.stats.spikesDetected = @ + spikes]
         /\ fullObs' = IF spikes > 0 /\ posted THEN [fullObs EXCEPT !.notifiedAt = now]
                       ELSE fullObs
    /\ fullPc' = "heartbeat"
    /\ UNCHANGED <<monitorVars, fullFile, now, fnVars, procs>>

\* variant of checkHeartbeat that sets the time before it posts
FullHeartbeatStamping ==
    /\ fullPc = "heartbeat"
    /\ IF InSixHours(now - fullState.stats.lastHeartbeat) > heartbeatInterval
       THEN \E sent \in BOOLEAN :
              /\ fullState' = [fullState EXCEPT !.stats.lastHeartbeat = now]
              /\ fullObs' = [fullObs EXCEPT !.beat = sent]
       ELSE UNCHANGED <<fullState, fullObs>>
    /\ fullPc' = "save"
    /\ UNCHANGED <<monitorVars, fullFile, now, fnVars, procs>>

\* checkHeartbeat: the heartbeat is due and sent, due and not delivered, or not due
FullHeartbeat ==
    /\ fullPc = "heartbeat"
    /\ IF InSixHours(now - fullState.stats.lastHeartbeat) > heartbeatInterval
       THEN \E sent \in BOOLEAN :
              /\ fullState' = IF sent THEN [fullState EXCEPT !.stats.lastHeartbeat = now]
                              ELSE fullState
              /\ fullObs' = [fullObs EXCEPT !.beat = sent]
       ELSE UNCHANGED <<fullState, fullObs>>
    /\ fullPc' = "save"
    /\ UNCHANGED <<monitorVars, fullFile, now, fnVars, procs>>

\* the timestamps are set and the state is saved, or the write fails and is logged
FullSave ==
    /\ fullPc = "save"
    /\ fullState' = fullEndOfRun(fullState, now)
    /\ \E written \in BOOLEAN :
         IF written
         THEN /\ fullFile' = [exists |-> TRUE, data |-> fullState']
              /\ fullObs' = [fullObs EXCEPT !.savedFetchedAt = fullObs.fetchedAt]
         ELSE /\ fullFile' = fullFile
              /\ fullObs' = [fullObs EXCEPT !.writeFailed = TRUE]
    /\ fullPc' = "end"
    /\ UNCHANGED <<monitorVars, now, fnVars, procs>>

\* monitor() returns and the process exits
FullFinish ==
    /\ fullPc = "end"
    /\ fullPc' = "idle"
    /\ fullState' = FullDefaultState
    /\ fullObs' = IF fullObs.writeFailed THEN fullObs
                  ELSE [fullObs EXCEPT !.completed = @ + 1]
    /\ UNCHANGED <<monitorVars, fullFile, now, fnVars, procs>>

InitFullIdle ==
    /\ fullFile = FullNoFile
    /\ fullState = FullDefaultState
    /\ fullPc = "idle"
    /\ fullObs = [fetchedAt |-> 0, savedFetchedAt |-> 0, lastStart |-> 0, spaced |-> TRUE,
                 completed |-> 0, writeFailed |-> FALSE, notifiedAt |-> 0, beat |-> FALSE]

(* --------------------- OKXMonitor.get_kline_data ----------------------- *)

\* what session.get did: it raised (no response), or it returned a response
\* with a status code, whose body is not JSON or has no 'code'/'data'
\* (code "none"), or has them
NoResponse == [status |-> 0, code |-> "none", data |-> <<>>]
Response(status, code, data) == [status |-> status, code |-> code, data |-> data]

\* candles newest first, as the endpoint returns them: candle k has time k
NewestFirst(n) == [i \in 1..n |-> n + 1 - i]

KlineResponses ==
    {NoResponse}
    \cup {Response(status, code, data) :
            status \in {200, 429, 500}, code \in {"0", "1", "none"},
            data \in {NewestFirst(n) : n \in {0, MaxKlines}}}

\* `data['data'][::-1]`
Reversed(seq) == [i \in 1..Len(seq) |-> seq[Len(seq) + 1 - i]]

\* from raise_for_status on: an error status, a body that is not JSON or
\* lacks a key raise inside the try and give [], and so does code != '0' or
\* empty data
Candlesticks(response) ==
    IF response.status >= 400 \/ response.code # "0" \/ response.data = <<>>
    THEN <<>>
    ELSE Reversed(response.data)

\* variant that requests again after every error status
get_kline_dataRetryingErrors(first, second) ==
    IF first.status = 0
    THEN [attempts |-> 1, slept |-> 0, returned |-> <<>>]
    ELSE IF first.status >= 400
    THEN [attempts |-> 2, slept |-> 5,
          returned |-> IF second.status = 0 THEN <<>> ELSE Candlesticks(second)]
    ELSE [attempts |-> 1, slept |-> 0, returned |-> Candlesticks(first)]

\* the requests made, the seconds slept and the list returned, given what the
\* first and (if made) the second session.get do
get_kline_data(first, second) ==
    IF first.status = 0
    THEN [attempts |-> 1, slept |-> 0, returned |-> <<>>]
    ELSE IF first.status = 429
    THEN [attempts |-> 2, slept |-> 5,
          returned |-> IF second.status = 0 THEN <<>> ELSE Candlesticks(second)]
    ELSE [attempts |-> 1, slept |-> 0, returned |-> Candlesticks(first)]

GetKlineData ==
    /\ result = NoResult
    /\ input.kind = "kline"
    /\ result' = [fn |-> "get_kline_data"] @@ get_kline_data(input.first, input.second)
    /\ UNCHANGED <<monitorVars, fullVars, now, input, procs>>

(* ----------- two processes of the rotating monitor on one file --------- *)

Procs == {1, 2}

\* a process that is not running; `seen` is what its loadState read, `base`
\* the number of saves made before it, `saved` whether its saveState wrote
IdleProc ==
    [pc |-> "idle", state |-> DefaultState, batch |-> EmptyBatch,
     seen |-> DefaultState, base |-> 0, saved |-> FALSE]

\* the observer: runs started, saves made, per exchange the sum (modulo the
\* list length) of the batch sizes of the runs that saved, and whether no
\* process has loaded between another one's load and save
NoProcs ==
    [run |-> [p \in Procs |-> IdleProc], started |-> 0, saves |-> 0,
     applied |-> [s \in Sources |-> 0], serial |-> TRUE]

HasLoaded(p) == procs.run[p].pc \in {"refresh", "select", "check", "update", "save"}

\* what the processes leave alone: all but the state file
procFrame == <<state, pc, batch, found, delivered, outcome, now, exch, countCap,
               obsVars, fetched, fullVars, fnVars>>

\* `node monitor-all-pairs-rotating.js` is started
ProcStart(p) ==
    /\ procs.run[p].pc = "idle"
    /\ procs.started < MaxOverlapRuns
    /\ procs' = [procs EXCEPT !.run[p] = [IdleProc EXCEPT !.pc = "load"],
                              !.started = @ + 1]
    /\ UNCHANGED <<file, procFrame>>

ProcLoad(p) ==
    /\ procs.run[p].pc = "load"
    /\ procs' = [procs EXCEPT !.run[p].state = loadState(file),
                              !.run[p].seen = loadState(file),
                              !.run[p].base = procs.saves,
                              !.run[p].pc = "refresh",
                              !.serial = @ /\ ~\E q \in Procs \ {p} : HasLoaded(q)]
    /\ UNCHANGED <<file, procFrame>>

ProcRefresh(p) ==
    /\ procs.run[p].pc = "refresh"
    /\ procs' = [procs EXCEPT
                   !.run[p].state = IF shouldRefreshSymbols(@, now)
                                    THEN getAllSymbols(@, exch.binance, exch.okx, now)
                                    ELSE @,
                   !.run[p].pc = "select"]
    /\ UNCHANGED <<file, procFrame>>

ProcSelect(p) ==
    /\ procs.run[p].pc = "select"
    /\ LET r == getSymbolsForThisRun(procs.run[p].state) IN
         procs' = IF r.threw \/ (Len(r.symbols.binance) = 0 /\ Len(r.symbols.okx) = 0)
                  THEN [procs EXCEPT !.run[p].pc = "end"]
                  ELSE [procs EXCEPT !.run[p].batch = r.symbols, !.run[p].pc = "check"]
    /\ UNCHANGED <<file, procFrame>>

\* the batch is checked and the notification attempted
ProcCheck(p) ==
    /\ procs.run[p].pc = "check"
    /\ procs' = [procs EXCEPT !.run[p].pc = "update"]
    /\ UNCHANGED <<file, procFrame>>

ProcUpdate(p) ==
    /\ procs.run[p].pc = "update"
    /\ procs' = [procs EXCEPT
                   !.run[p].state = updateStateIndexes(@, Len(procs.run[p].batch.binance),
                                                       Len(procs.run[p].batch.okx)),
                   !.run[p].pc = "save"]
    /\ UNCHANGED <<file, procFrame>>

\* the observer's sum of the batch sizes that were saved
Applied(applied, st, selected) ==
    [s \in Sources |->
        IF Len(st[s].allSymbols) > 0
        THEN (applied[s] + Len(selected[s])) % Len(st[s].allSymbols)
        ELSE applied[s]]

\* variant of the save that adds the batch sizes to the cursor the file holds
\* at the time of the save
ProcSaveMerging(p) ==
    /\ procs.run[p].pc = "save"
    /\ file' = saveState(updateStateIndexes(
                    [s \in Sources |->
                        [procs.run[p].state[s] EXCEPT
                            !.lastIndex = loadState(file)[s].lastIndex]],
                    Len(procs.run[p].batch.binance), Len(procs.run[p].batch.okx)))
    /\ procs' = [procs EXCEPT
                   !.run[p].pc = "end",
                   !.run[p].saved = TRUE,
                   !.saves = @ + 1,
                   !.applied = Applied(@, procs.run[p].state, procs.run[p].batch)]
    /\ UNCHANGED procFrame

\* saveState writes the whole in-memory state over the file
ProcSave(p) ==
    /\ procs.run[p].pc = "save"
    /\ file' = saveState(procs.run[p].state)
    /\ procs' = [procs EXCEPT
                   !.run[p].pc = "end",
                   !.run[p].saved = TRUE,
                   !.saves = @ + 1,
                   !.applied = Applied(@, procs.run[p].state, procs.run[p].batch)]
    /\ UNCHANGED procFrame

\* the process exits; the observer keeps what it did until it starts again
ProcFinish(p) ==
    /\ procs.run[p].pc = "end"
    /\ procs' = [procs EXCEPT !.run[p].pc = "idle"]
    /\ UNCHANGED <<file, procFrame>>

(* --------------------------- specifications --------------------------- *)

InitProgram ==
    /\ file = NoFile
    /\ state = DefaultState
    /\ pc = "idle"
    /\ batch = EmptyBatch
    /\ found = FALSE
    /\ delivered = FALSE
    /\ outcome = "none"
    /\ now = twentyFourHours + 1
    /\ fetched = NoFetch
    /\ procs = NoProcs

InitNoFunction ==
    /\ input = NoInput
    /\ result = NoResult

InitObserver(cap, nb, no) ==
    /\ countCap = cap
    /\ selCount = [binance |-> [k \in 1..nb |-> 0], okx |-> [k \in 1..no |-> 0]]
    /\ runsDone = 0
    /\ lastBatch = EmptyBatch
    /\ lastSaved = FALSE

\* any listings, fetch failures, crashes and save failures; not observed
Init ==
    /\ InitProgram
    /\ exch = EmptyBatch
    /\ InitObserver(0, 0, 0)
    /\ InitFullIdle
    /\ InitNoFunction

Next ==
    \/ StartRun
    \/ LoadState
    \/ Refresh
    \/ Select
    \/ Check
    \/ Notify
    \/ Update
    \/ SaveOk
    \/ SaveFail
    \/ Finish
    \/ Crash
    \/ Tick

Spec == Init /\ [][Next]_vars

\* as Spec, started on a state file that cannot be loaded
InitUnreadable ==
    /\ file \in UnreadableFiles
    /\ state = DefaultState
    /\ pc = "idle"
    /\ batch = EmptyBatch
    /\ found = FALSE
    /\ delivered = FALSE
    /\ outcome = "none"
    /\ now = twentyFourHours + 1
    /\ fetched = NoFetch
    /\ procs = NoProcs
    /\ exch = EmptyBatch
    /\ InitObserver(0, 0, 0)
    /\ InitFullIdle
    /\ InitNoFunction

SpecUnreadable == InitUnreadable /\ [][Next]_vars

\* a fixed universe per exchange, every run runs to its end and saves
InitFixed ==
    /\ InitProgram
    /\ InitFullIdle
    /\ InitNoFunction
    /\ \E nb \in 0..MaxFixedSyms, no \in 0..MaxFixedSyms :
         /\ exch = [binance |-> Listing(nb), okx |-> Listing(no)]
         /\ InitObserver(MaxRuns, nb, no)

NextFixed ==
    \/ StartCountedRun
    \/ LoadState
    \/ RefreshFixed
    \/ Select
    \/ Check
    \/ Notify
    \/ Update
    \/ SaveOk
    \/ Finish
    \/ Tick

SpecFixed == InitFixed /\ [][NextFixed]_vars

\* a fixed universe per exchange, runs may crash or fail to save
InitResume ==
    /\ InitProgram
    /\ InitFullIdle
    /\ InitNoFunction
    /\ \E nb \in 0..MaxSyms, no \in 0..MaxSyms :
         /\ exch = [binance |-> Listing(nb), okx |-> Listing(no)]
         /\ InitObserver(1, nb, no)

NextResume ==
    \/ StartRun
    \/ LoadState
    \/ RefreshFixed
    \/ Select
    \/ Check
    \/ Notify
    \/ Update
    \/ SaveOk
    \/ SaveFail
    \/ Finish
    \/ Crash
    \/ Tick

SpecResume == InitResume /\ [][NextResume]_vars

\* the all-pairs monitor alone: any listings, failed requests and failed saves
InitFull ==
    /\ InitProgram
    /\ exch = EmptyBatch
    /\ InitObserver(0, 0, 0)
    /\ InitFullIdle
    /\ InitNoFunction

NextFull ==
    \/ FullStart
    \/ FullLoad
    \/ FullRefresh
    \/ FullSelect
    \/ FullCheck
    \/ FullHeartbeat
    \/ FullSave
    \/ FullFinish
    \/ Tick

SpecFull == InitFull /\ [][NextFull]_vars

\* the symbol-list functions applied to any exchangeInfo answer, twice
InitUniverse ==
    /\ InitProgram
    /\ exch = EmptyBatch
    /\ InitObserver(0, 0, 0)
    /\ InitFullIdle
    /\ result = NoResult
    /\ \E symbols \in ExchangeInfos, reordered \in ExchangeInfos :
         /\ IsReordering(symbols, reordered)
         /\ input = [kind |-> "exchangeInfo", symbols |-> symbols, reordered |-> reordered]

NextUniverse ==
    \/ GetBinanceSymbols
    \/ GetTradableSymbols

SpecUniverse == InitUniverse /\ [][NextUniverse]_vars

\* the detection functions applied to any candle sequence and threshold
InitDetect ==
    /\ InitProgram
    /\ exch = EmptyBatch
    /\ InitObserver(0, 0, 0)
    /\ InitFullIdle
    /\ result = NoResult
    /\ \E data \in CandleInputs, threshold \in ThresholdArguments :
         input = [kind |-> "candles", data |-> data, threshold |-> threshold]

NextDetect ==
    \/ DetectSpike
    \/ DetectMASpike
    \/ DetectSpikes
    \/ DetectMASpikes

SpecDetect == InitDetect /\ [][NextDetect]_vars

\* one symbol of a batch checked against any candles and daily candle
InitCheck ==
    /\ InitProgram
    /\ exch = EmptyBatch
    /\ InitObserver(0, 0, 0)
    /\ InitFullIdle
    /\ result = NoResult
    /\ \E hour \in KlineResults, fourHour \in KlineResults, dailyData \in DailyResults,
          exchange \in Sources :
         input = [kind |-> "symbol", hour |-> hour, fourHour |-> fourHour,
                  dailyData |-> dailyData, exchange |-> exchange, symbol |-> 1]

NextCheck == CheckSymbol

SpecCheck == InitCheck /\ [][NextCheck]_vars

\* the spikes of one run, those of Binance first, handed to the notifier
InitNotify ==
    /\ InitProgram
    /\ exch = EmptyBatch
    /\ InitObserver(0, 0, 0)
    /\ InitFullIdle
    /\ result = NoResult
    /\ \E binanceSpikes \in SpikesOf("binance"), okxSpikes \in SpikesOf("okx") :
         input = [kind |-> "spikes", spikes |-> binanceSpikes \o okxSpikes]

NextNotify ==
    \/ SendServerChanNotifications
    \/ FullSendServerChanNotifications

SpecNotify == InitNotify /\ [][NextNotify]_vars

\* loadState on no file and on files that lack entries or fields
InitLoad ==
    /\ InitProgram
    /\ exch = EmptyBatch
    /\ InitObserver(0, 0, 0)
    /\ InitFullIdle
    /\ result = NoResult
    /\ \E f \in StateFiles : input = [kind |-> "stateFile", file |-> f]

NextLoad == LoadStateFile

SpecLoad == InitLoad /\ [][NextLoad]_vars

\* one checkExchange call of any of the three scripts on up to MaxChecked symbols
InitEvaluate ==
    /\ InitProgram
    /\ exch = EmptyBatch
    /\ InitObserver(0, 0, 0)
    /\ InitFullIdle
    /\ result = NoResult
    /\ \E script \in Scripts, length \in 0..MaxChecked :
         input = [kind |-> "batch", script |-> script, length |-> length]

NextEvaluate ==
    \/ EvaluateStart
    \/ EvaluateSettle
    \/ EvaluateGroupEnd
    \/ EvaluateSleepEnd

SpecEvaluate == InitEvaluate /\ [][NextEvaluate]_vars

\* two processes on one state file and a fixed universe; every run that
\* selects a batch saves
InitOverlap ==
    /\ InitProgram
    /\ InitObserver(0, 0, 0)
    /\ InitFullIdle
    /\ InitNoFunction
    /\ \E nb \in 0..MaxOverlapSyms, no \in 0..MaxOverlapSyms :
         exch = [binance |-> Listing(nb), okx |-> Listing(no)]

NextOverlap ==
    \E p \in Procs :
        \/ ProcStart(p)
        \/ ProcLoad(p)
        \/ ProcRefresh(p)
        \/ ProcSelect(p)
        \/ ProcCheck(p)
        \/ ProcUpdate(p)
        \/ ProcSave(p)
        \/ ProcFinish(p)

SpecOverlap == InitOverlap /\ [][NextOverlap]_vars

\* one get_kline_data call against any first and second answer
InitKline ==
    /\ InitProgram
    /\ exch = EmptyBatch
    /\ InitObserver(0, 0, 0)
    /\ InitFullIdle
    /\ result = NoResult
    /\ \E first \in KlineResponses, second \in KlineResponses :
         input = [kind |-> "kline", first |-> first, second |-> second]

NextKline == GetKlineData

SpecKline == InitKline /\ [][NextKline]_vars

(* ------------------------------- claims ------------------------------- *)

Running == pc # "idle"
Symbols(s) == state[s].allSymbols
Cursor(s) == state[s].lastIndex
Share(s) == IF s = "binance" THEN CeilHalf(pairsPerRun) ELSE FloorHalf(pairsPerRun)
BatchHeld == pc \in {"check", "notify", "update"}

\* C3: in every state of a run, each exchange's lastIndex lies in
\* [0, len(allSymbols)) whenever its symbol list is non-empty, also after a
\* refresh that replaced the list by a shorter one.
C3_CursorInRange ==
    \A s \in Sources :
        Len(Symbols(s)) > 0 => (0 <= Cursor(s) /\ Cursor(s) < Len(Symbols(s)))

\* C4: the batch selected for an exchange with N > 0 symbols, cursor lastIndex
\* and share B is exactly the min(B, N) symbols at positions
\* (lastIndex + i) mod N, i = 0 .. min(B, N) - 1, in that order.
C4_BatchSelection ==
    BatchHeld =>
        \A s \in Sources :
            LET N == Len(Symbols(s)) IN
            N > 0 =>
                batch[s] = [i \in 1..Min(Share(s), N) |->
                               Symbols(s)[((Cursor(s) + (i - 1)) % N) + 1]]

\* C4 witness: a batch shorter than the list that wraps around its end
C4_Witness ==
    /\ pc = "check"
    /\ Len(Symbols("binance")) > Share("binance")
    /\ Cursor("binance") + Len(batch.binance) > Len(Symbols("binance"))
    /\ batch.binance[Len(batch.binance)] < batch.binance[1]

\* C5: the cursor advance sets each exchange's lastIndex to
\* (old lastIndex + number of symbols selected for it) mod N, from that
\* exchange's own values only, and changes nothing else of the state.
C5_CursorAdvance ==
    [][(pc = "update" /\ pc' = "save") =>
        \A s \in Sources :
            /\ Len(Symbols(s)) > 0 =>
                  state'[s].lastIndex = (Cursor(s) + Len(batch[s])) % Len(Symbols(s))
            /\ state'[s].allSymbols = Symbols(s)
            /\ state'[s].lastRun = state[s].lastRun]_vars

\* C5 witness: after the advance one cursor has wrapped and the two differ
C5_Witness ==
    /\ pc = "save"
    /\ file.exists
    /\ Cursor("binance") < file.data.binance.lastIndex
    /\ Cursor("okx") > file.data.okx.lastIndex
    /\ Cursor("okx") # Cursor("binance")

\* C6: when an exchange has no symbols, batch selection does not raise, its
\* batch is empty and its lastIndex is left unchanged by the run.
C6_EmptyUniverse ==
    \A s \in Sources :
        Len(Symbols(s)) = 0 =>
            /\ (pc = "end" => outcome # "threw")
            /\ batch[s] = <<>>
            /\ (Running /\ pc # "load" => Cursor(s) = loadState(file)[s].lastIndex)

\* C8: for all sizes N1, N2 the selection step completes without failing, the
\* two batches together hold min(pairsPerRun, N1 + N2) symbols and no exchange
\* is given more symbols than it has.
C8_FairAllocation ==
    /\ (pc = "end" => outcome # "threw")
    /\ BatchHeld =>
          /\ Len(batch.binance) + Len(batch.okx)
                = Min(pairsPerRun, Len(Symbols("binance")) + Len(Symbols("okx")))
          /\ \A s \in Sources : Len(batch[s]) <= Len(Symbols(s))

(* --------------------- claims about the refresh ----------------------- *)

\* the run is past its refresh step and has not ended
Refreshed == pc \in {"select", "check", "notify", "update", "save"}

\* the state the run loaded: what was cached before its refresh
Cached == loadState(file)

\* C11: when the symbol-list request of an exchange fails during a refresh,
\* that exchange's cached symbol list is kept unchanged, and the run does not
\* raise.
C11_StaleButAvailable ==
    \A s \in Sources :
        fetched[s] = "failed" =>
            /\ Refreshed => Symbols(s) = Cached[s].allSymbols
            /\ pc = "end" => outcome # "threw"

C14_DeterministicOrder ==
    result # NoResult => result.symbols = result.again

\* the instruments of an answer that are tradable, quoted in USDT and not dated
InUniverse(s) ==
    /\ s.status = "TRADING"
    /\ s.quoteAsset = "USDT"
    /\ s.contractType = "PERPETUAL" /\ ~IncludesUnderscore(s.symbol)

\* C15: after a successful refresh the symbol list holds exactly the symbols
\* of the listed instruments that are tradable, have the quote asset USDT
\* and are not dated contracts.
C15_UniverseFilter ==
    result # NoResult =>
        Range(result.symbols) =
            {input.symbols[i].symbol : i \in {j \in 1..Len(input.symbols) :
                                                  InUniverse(input.symbols[j])}}

(* ---------------------- claims about the detection -------------------- *)

\* the input of a detection function and what it returned
InCandles == input.data.candles
CurrentVolume == InCandles[Len(InCandles)].volume
PreviousVolume == InCandles[Len(InCandles) - 1].volume

RECURSIVE VolumeFrom(_, _)
VolumeFrom(candles, i) ==
    IF i > Len(candles) THEN 0 ELSE candles[i].volume + VolumeFrom(candles, i + 1)

\* S: the volume of the last 20 candles, the current one included
WindowSum == VolumeFrom(InCandles, Len(InCandles) - 19)

HasPair == input.data.isArray /\ Len(InCandles) >= 2
HasWindow == input.data.isArray /\ Len(InCandles) >= 21

\* the findings of the call, as a list
Findings ==
    IF result.fn \in {"detectSpike", "detectMASpike"}
    THEN IF result.returned = null THEN <<>> ELSE <<result.returned>>
    ELSE result.returned

\* the threshold the call compared against
ThresholdUsed ==
    IF result.fn \in {"detectSpike", "detectMASpike"}
    THEN input.threshold
    ELSE ThresholdOf(result.type)

\* C16: for strictly positive current and previous volumes the interval rule
\* emits a finding exactly when current >= threshold * previous, and the ratio
\* it reports is current / previous (8 when current = 8 * previous).
C16_IntervalBoundary ==
    (result.fn \in {"detectSpike", "detectSpikes"} /\ HasPair
        /\ CurrentVolume > 0 /\ PreviousVolume > 0) =>
        /\ Findings # <<>> <=>
              /\ ThresholdUsed.defined
              /\ CurrentVolume >= ThresholdUsed.value * PreviousVolume
        /\ \A i \in 1..Len(Findings) :
              /\ Findings[i].ratio.kind = "number"
              /\ Findings[i].ratio.num * PreviousVolume
                    = CurrentVolume * Findings[i].ratio.den

\* C16 witness: detectSpike with threshold 8 on current = 8 * previous has
\* emitted a finding with ratio 8
C16_Witness ==
    /\ result.fn = "detectSpike"
    /\ input.threshold = Threshold(8)
    /\ HasPair
    /\ PreviousVolume = 1000
    /\ CurrentVolume = 8 * PreviousVolume
    /\ result.returned # null
    /\ result.returned.ratio.num = 8 * result.returned.ratio.den

C18_ZeroVolumeGuard ==
    (result # NoResult /\ input.data.isArray) =>
        /\ (result.fn \in {"detectSpike", "detectSpikes"} /\ HasPair
              /\ (CurrentVolume <= 0 \/ PreviousVolume <= 0)) => Findings = <<>>
        /\ (result.fn \in {"detectMASpike", "detectMASpikes"} /\ HasWindow
              /\ (CurrentVolume <= 0 \/ WindowSum <= 0)) => Findings = <<>>
        /\ \A i \in 1..Len(Findings) : Findings[i].ratio.kind = "number"

\* C18 witness: detectSpike with threshold 0 has returned null for a previous
\* volume of 0 and a positive current volume
C18_Witness ==
    /\ result.fn = "detectSpike"
    /\ input.threshold = Threshold(0)
    /\ HasPair
    /\ PreviousVolume = 0
    /\ CurrentVolume > 0
    /\ result.returned = null

\* the findings of the checked symbol with the given type
SpikesOfType(type) == SelectSeq(result.spikes, LAMBDA f : f.type = type)

Checked == result # NoResult /\ input.hour.ok /\ input.fourHour.ok

\* C19: a missing candle sequence or one with fewer than 2 candles gives no
\* interval finding and one with fewer than 21 candles no moving-average
\* finding, without any error, and the other rule and the other interval of
\* the symbol are still evaluated: each of the four findings is there exactly
\* when its own rule emits it.
C19_InsufficientHistory ==
    Checked =>
        /\ ~result.caught
        /\ detectSpike(NullData, Threshold(hourSpikeThreshold), "hour") = null
        /\ detectMASpike(NullData, Threshold(hourMaThreshold), "hour-ma") = null
        /\ Len(input.hour.data.candles) < 2 => SpikesOfType("hour") = <<>>
        /\ Len(input.fourHour.data.candles) < 2 => SpikesOfType("fourhour") = <<>>
        /\ Len(input.hour.data.candles) < 21 => SpikesOfType("hour-ma") = <<>>
        /\ Len(input.fourHour.data.candles) < 21 => SpikesOfType("fourhour-ma") = <<>>
        /\ ~IsBelowMinimum(input.dailyData) =>
              /\ SpikesOfType("hour") # <<>> <=>
                    detectSpike(input.hour.data, Threshold(hourSpikeThreshold), "hour") # null
              /\ SpikesOfType("hour-ma") # <<>> <=>
                    detectMASpike(input.hour.data, Threshold(hourMaThreshold), "hour-ma") # null
              /\ SpikesOfType("fourhour") # <<>> <=>
                    detectSpike(input.fourHour.data, Threshold(fourHourSpikeThreshold),
                                "fourhour") # null
              /\ SpikesOfType("fourhour-ma") # <<>> <=>
                    detectMASpike(input.fourHour.data, Threshold(fourHourMaThreshold),
                                  "fourhour-ma") # null

\* C19 witness: the hourly sequence has one candle and gave no finding, and
\* both 4-hour rules have emitted theirs
C19_Witness ==
    /\ Checked
    /\ Len(input.hour.data.candles) = 1
    /\ SpikesOfType("hour") = <<>>
    /\ SpikesOfType("hour-ma") = <<>>
    /\ Len(SpikesOfType("fourhour")) = 1
    /\ Len(SpikesOfType("fourhour-ma")) = 1

\* C20: no finding is reported for a symbol whose newest daily quote volume is
\* below config.minQuoteVolume, whatever its 1h and 4h candles are.
C20_LiquidityFilter ==
    (result # NoResult /\ ~input.dailyData.isNull
        /\ LessThan(input.dailyData.quoteVolume, minQuoteVolume)) =>
        result.spikes = <<>>

\* C20 witness: a symbol one unit below the minimum has no finding although
\* its 4-hour candles satisfy both rules
C20_Witness ==
    /\ Checked
    /\ input.dailyData = DailyKline(Fraction(minQuoteVolume - 1, 1))
    /\ detectSpike(input.fourHour.data, Threshold(fourHourSpikeThreshold), "fourhour") # null
    /\ detectMASpike(input.fourHour.data, Threshold(fourHourMaThreshold), "fourhour-ma") # null
    /\ result.spikes = <<>>

\* a candle request of the checked symbol failed: getKlineData rejected, or
\* getDailyKline caught the error of its request and returned null
AnyFetchFailed == ~input.hour.ok \/ ~input.fourHour.ok \/ input.dailyData.isNull

\* C21: a symbol for which any of the three candle requests (1h, 4h, daily)
\* failed contributes no finding to the run.
C21_FailureIsolation ==
    (result # NoResult /\ AnyFetchFailed) => result.spikes = <<>>

\* the daily candle of the checked symbol could not be fetched, its 1h and 4h
\* candles could
OnlyDailyFailed == input.dailyData.isNull /\ input.hour.ok /\ input.fourHour.ok

\* C38: a symbol whose daily candle could not be fetched while its 1h and 4h
\* candles could is not skipped: no error is logged for it, each of the four
\* rules contributes its finding exactly when it emits one, and every finding
\* carries a daily quote volume of 0.
C38_DailyFailureBypassesFilter ==
    (Checked /\ OnlyDailyFailed) =>
        /\ ~result.caught
        /\ SpikesOfType("hour") # <<>> <=>
              detectSpike(input.hour.data, Threshold(hourSpikeThreshold), "hour") # null
        /\ SpikesOfType("hour-ma") # <<>> <=>
              detectMASpike(input.hour.data, Threshold(hourMaThreshold), "hour-ma") # null
        /\ SpikesOfType("fourhour") # <<>> <=>
              detectSpike(input.fourHour.data, Threshold(fourHourSpikeThreshold),
                          "fourhour") # null
        /\ SpikesOfType("fourhour-ma") # <<>> <=>
              detectMASpike(input.fourHour.data, Threshold(fourHourMaThreshold),
                            "fourhour-ma") # null
        /\ \A i \in 1..Len(result.spikes) :
              result.spikes[i].dailyQuoteVolume = Fraction(0, 1)

\* C38 witness: without a daily candle the symbol's hourly finding is reported
\* with a daily quote volume of 0
C38_Witness ==
    /\ Checked
    /\ OnlyDailyFailed
    /\ SpikesOfType("hour") # <<>>
    /\ result.spikes[1].dailyQuoteVolume = Fraction(0, 1)

(* ------------------ claims about the end of a run ---------------------- *)

\* the run goes on: the process is not killed in this step
GoesOn == pc' # "idle"

\* C22: a notification request that fails changes nothing of the scheduler
\* state: the run goes on to the cursor update, which advances each exchange's
\* lastIndex by the number of symbols selected for it (modulo its list
\* length) and changes nothing else, and a successful save writes exactly that
\* state, whether the notification was delivered or not.
C22_NotifierFailure ==
    [][/\ (pc = "notify" /\ GoesOn) =>
             (pc' = "update" /\ state' = state /\ batch' = batch /\ file' = file)
       /\ (pc = "update" /\ GoesOn) =>
             /\ pc' = "save"
             /\ file' = file
             /\ \A s \in Sources :
                  /\ state'[s].allSymbols = Symbols(s)
                  /\ state'[s].lastRun = state[s].lastRun
                  /\ state'[s].lastIndex =
                       IF Len(Symbols(s)) > 0
                       THEN (Cursor(s) + Len(batch[s])) % Len(Symbols(s))
                       ELSE Cursor(s)
       /\ (pc = "save" /\ outcome' = "saved") =>
             (file'.exists /\ file'.data = state)]_vars

\* C22 witness: a run with findings whose notification failed has saved the
\* advanced cursor
C22_Witness ==
    /\ pc = "end"
    /\ outcome = "saved"
    /\ found
    /\ ~delivered
    /\ Len(batch.binance) > 0
    /\ Cursor("binance") > 0
    /\ file.data = state

\* the (call, row) places at which a spike is carried
CarriedAt(spike) ==
    {<<c, j>> \in (1..Len(result.calls)) \X (1..(2 * MaxSpikes + 2)) :
        j <= Len(result.calls[c].spikes) /\ result.calls[c].spikes[j] = spike}

Notified == result # NoResult /\ input.kind = "spikes"

\* C23: every spike of the run is carried by exactly one notification
\* request; there is one request per exchange that has a spike and none for
\* an exchange without; a request carries only spikes of its own exchange
\* that this run produced, and its title counts them.
C23_FindingsNotifiedOnce ==
    Notified =>
        /\ \A i \in 1..Len(input.spikes) : Cardinality(CarriedAt(input.spikes[i])) = 1
        /\ \A s \in Sources :
              Cardinality({c \in 1..Len(result.calls) : result.calls[c].exchange = s})
                = IF \E i \in 1..Len(input.spikes) : input.spikes[i].exchange = s
                  THEN 1 ELSE 0
        /\ \A c \in 1..Len(result.calls) :
              /\ result.calls[c].spikes # <<>>
              /\ result.calls[c].count = Len(result.calls[c].spikes)
              /\ \A j \in 1..Len(result.calls[c].spikes) :
                    /\ result.calls[c].spikes[j].exchange = result.calls[c].exchange
                    /\ \E i \in 1..Len(input.spikes) :
                          input.spikes[i] = result.calls[c].spikes[j]

\* C23 witness: the rotating monitor's notifier made two requests, the one of
\* Binance with two spikes failed and the one of OKX was delivered
C23_Witness ==
    /\ Notified
    /\ result.fn = "sendServerChanNotifications"
    /\ Len(result.calls) = 2
    /\ result.calls[1].exchange = "binance"
    /\ result.calls[1].count = 2
    /\ ~result.calls[1].delivered
    /\ result.calls[2].exchange = "okx"
    /\ result.calls[2].delivered

\* C24: however a run ends without being killed (with findings, without,
\* with no symbols to scan, or with an error caught by monitor()), it has
\* attempted to save the state.
C24_SaveOnEveryPath ==
    pc = "end" => outcome \in {"saved", "saveFailed"}

\* C25: a save that fails does not raise: the run ends as a run that saved
\* does, except that the state file is as it was before; nothing changes the
\* file until the next run has loaded it, and that run starts from what the
\* file holds.
C25_SaveFailure ==
    [][/\ (pc = "save" /\ GoesOn) =>
             /\ pc' = "end"
             /\ outcome' \in {"saved", "saveFailed"}
             /\ outcome' = "saveFailed" => file' = file
       /\ pc \in {"end", "idle", "load"} => file' = file
       /\ (pc = "load" /\ GoesOn) =>
             /\ pc' = "refresh"
             /\ state' = IF file.exists THEN file.data ELSE DefaultState]_vars

\* C25 witness: the save of the last run failed, and this run has loaded the
\* cursor that an earlier run had saved
C25_Witness ==
    /\ pc = "refresh"
    /\ outcome = "saveFailed"
    /\ file.exists
    /\ state = file.data
    /\ Cursor("binance") > 0

\* what the file holds for a field of an exchange
IsSaved(s, key) ==
    /\ input.file.exists
    /\ s \in DOMAIN input.file.data
    /\ key \in DOMAIN input.file.data[s]

Loaded == result # NoResult /\ input.kind = "stateFile"

\* C26: after loadState each field of each exchange is the saved one when the
\* file has it, and else its default: an empty list, cursor 0, refresh time 0.
C26_InitDefaults ==
    Loaded =>
        \A s \in Sources :
            /\ result.state[s].allSymbols =
                  IF IsSaved(s, "allSymbols") THEN input.file.data[s].allSymbols ELSE <<>>
            /\ result.state[s].lastIndex =
                  IF IsSaved(s, "lastIndex") THEN input.file.data[s].lastIndex ELSE 0
            /\ result.state[s].lastRun =
                  IF IsSaved(s, "lastRun") THEN input.file.data[s].lastRun ELSE 0

\* C26 witness: the file has no OKX entry and its Binance entry lacks the
\* refresh time; the saved list and cursor are loaded next to the defaults
C26_Witness ==
    /\ Loaded
    /\ input.file.exists
    /\ DOMAIN input.file.data = {"binance"}
    /\ DOMAIN input.file.data.binance = {"allSymbols", "lastIndex"}
    /\ result.state.binance = [allSymbols |-> Listing(MaxSavedSyms), lastIndex |-> 1,
                               lastRun |-> 0]
    /\ result.state.okx = DefaultSource

\* C39: a run that finds a state file it cannot read or parse goes on from
\* loadState with the defaults in every field of both exchanges (empty list,
\* cursor 0, refresh time 0) and leaves the file as it is; the save of a run
\* that succeeds replaces the file by the run's state, which can be loaded.
C39_UnreadableIsAbsent ==
    [][/\ (pc = "load" /\ GoesOn /\ Throws(file)) =>
             /\ pc' = "refresh"
             /\ \A s \in Sources :
                  /\ state'[s].allSymbols = <<>>
                  /\ state'[s].lastIndex = 0
                  /\ state'[s].lastRun = 0
             /\ state' = loadState(NoFile)
             /\ file' = file
       /\ (pc = "save" /\ outcome' = "saved" /\ Throws(file)) =>
             /\ ~Throws(file')
             /\ file'.data = state
             /\ loadState(file') = state]_vars

\* C39 witness: a run that found a cut-off file holding a saved Binance entry
\* has gone on from the defaults, fetched the lists, advanced the cursor from
\* 0 and is about to save over the file
C39_Witness ==
    /\ pc = "save"
    /\ Throws(file)
    /\ file.data.throws = "JSON.parse"
    /\ file.data.text.binance.lastIndex = 1
    /\ Len(Symbols("binance")) > Len(batch.binance)
    /\ Len(batch.binance) > 0
    /\ Cursor("binance") = Len(batch.binance)

(* ------------- claims about statistics and the heartbeat -------------- *)

\* the all-pairs run has loaded the state and counted itself
FullLoaded == fullPc \notin {"idle", "load"}

\* C27: over runs that do not overlap, the run counter a run sees is one more
\* than the number of runs that ended before it without a failed write, and
\* the number of findings it holds is not below the persisted one.
C27_RunStatisticsMonotone ==
    FullLoaded =>
        /\ fullState.stats.totalRuns = fullObs.completed + 1
        /\ fullState.stats.spikesDetected >= fullFile.data.stats.spikesDetected

\* C28: a heartbeat is delivered in a run only when more than the heartbeat
\* interval has passed since the last delivered finding notification.
C28_HeartbeatLiveness ==
    (fullObs.beat /\ fullObs.notifiedAt > 0) =>
        InSixHours(now - fullObs.notifiedAt) > heartbeatInterval

\* the heartbeat is due in the run that is at checkHeartbeat
HeartbeatDue == InSixHours(now - fullState.stats.lastHeartbeat) > heartbeatInterval

\* C40: checkHeartbeat sets lastHeartbeat, to the current time, exactly when
\* its request was delivered, and changes nothing else; whether or not it was
\* delivered the run goes on to the save; a run's lastHeartbeat differs from
\* the persisted one only after a heartbeat delivered in that run, so after
\* a failed delivery the heartbeat is as due as before.
C40_HeartbeatStamp ==
    /\ [](FullLoaded =>
            (fullState.stats.lastHeartbeat # fullFile.data.stats.lastHeartbeat
                => fullObs.beat))
    /\ [][fullPc = "heartbeat" =>
            /\ fullPc' = "save"
            /\ fullFile' = fullFile
            /\ fullObs'.beat => HeartbeatDue
            /\ fullState' = IF fullObs'.beat
                            THEN [fullState EXCEPT !.stats.lastHeartbeat = now]
                            ELSE fullState
            /\ fullState'.stats.lastHeartbeat # fullState.stats.lastHeartbeat
                  <=> fullObs'.beat]_vars

\* C40 witness: in a later run the heartbeat, never delivered so far, was due
\* again and failed again, and the run has saved its state with the time of
\* the last heartbeat unchanged
C40_Witness ==
    /\ fullPc = "end"
    /\ fullObs.completed >= 1
    /\ fullState.stats.totalRuns >= 2
    /\ ~fullObs.beat
    /\ ~fullObs.writeFailed
    /\ fullState.stats.lastHeartbeat = 0
    /\ fullFile.exists
    /\ fullFile.data = fullState
    /\ fullFile.data.binance.lastRun = now

(* ------------------- claims about an empty universe ------------------- *)

\* neither exchange has a symbol to scan in the run that has ended
NoUniverse == Len(Symbols("binance")) = 0 /\ Len(Symbols("okx")) = 0

\* a notification request was made in the run: the only requests are those
\* between the check and the cursor update
NotificationAttempted ==
    pc \in {"update", "save"} \/ (pc = "end" /\ outcome \in {"saved", "saveFailed"})

\* C29: the process of a run that has ended exits with a non-zero status
\* exactly when no exchange gave a symbol to scan.
C29_ExitStatus ==
    pc = "end" => (exitStatus(outcome) # 0 <=> NoUniverse)

\* C30: a run without a state file whose two symbol-list requests failed ends
\* without an error and has attempted a notification.
C30_UniverseUnavailableNotifies ==
    (pc = "end" /\ ~file.exists
        /\ fetched.binance = "failed" /\ fetched.okx = "failed") =>
        (outcome # "threw" /\ NotificationAttempted)

(* ------------------ claims about the phases of a run ------------------ *)

\* the phases that may follow a phase of monitor()
NextPhases(phase) ==
    CASE phase = "load"    -> {"refresh"}
      [] phase = "refresh" -> {"select"}
      [] phase = "select"  -> {"check", "end"}
      [] phase = "check"   -> {"notify"}
      [] phase = "notify"  -> {"update"}
      [] phase = "update"  -> {"save"}
      [] phase = "save"    -> {"end"}
      [] OTHER             -> {}

Cursors == [s \in Sources |-> Cursor(s)]

\* C31: a run goes through load, refresh, select, check, notify, update and
\* save in this order only; the in-memory cursor is set by the load, read by
\* the selection and changed by no other step than the update that follows
\* the notification; the batch is fixed from its selection on, and the state
\* file is written by the save only.
C31_PhaseOrder ==
    [][(pc # "idle" /\ GoesOn) =>
          /\ pc' # pc => pc' \in NextPhases(pc)
          /\ pc \notin {"load", "update"} => Cursors' = Cursors
          /\ pc \in {"check", "notify", "update", "save"} => batch' = batch
          /\ pc # "save" => file' = file]_vars

\* C31 witness: the run is about to save; its cursor was moved by the update
\* while the batch still starts at the cursor that was loaded
C31_Witness ==
    /\ pc = "save"
    /\ file.exists
    /\ Len(Symbols("binance")) > Len(batch.binance)
    /\ Len(batch.binance) > 0
    /\ batch.binance[1] = Symbols("binance")[file.data.binance.lastIndex + 1]
    /\ Cursor("binance") # file.data.binance.lastIndex

Evaluating == input.kind = "batch" /\ result # NoResult

\* evaluations are started in this step
StartsGroup ==
    /\ input.kind = "batch"
    /\ result' # NoResult
    /\ result'.phase = "group"
    /\ (result = NoResult \/ result'.started # result.started)

HoldsBatch(p) == procs.run[p].pc \in {"check", "update", "save"}

\* both processes have saved, and each had loaded before the other saved
BothSavedSameBase ==
    /\ \A p \in Procs : procs.run[p].pc \in {"end", "idle"} /\ procs.run[p].saved
    /\ procs.run[1].base = procs.run[2].base

\* C33: two processes that both loaded the file before either saved select
\* the same batches, and after both have saved the persisted cursor is the
\* loaded one advanced by one batch only; as long as no process has loaded
\* between another one's load and save, the persisted cursor of an exchange
\* with N symbols is the sum of the saved runs' batch sizes modulo N.
C33_OverlapLosesUpdate ==
    /\ (HoldsBatch(1) /\ HoldsBatch(2) /\ procs.run[1].base = procs.run[2].base) =>
          procs.run[1].batch = procs.run[2].batch
    /\ BothSavedSameBase =>
          \A s \in Sources :
              LET N == Len(file.data[s].allSymbols) IN
              N > 0 => file.data[s].lastIndex
                         = (procs.run[1].seen[s].lastIndex + Len(procs.run[1].batch[s])) % N
    /\ procs.serial =>
          \A s \in Sources :
              Len(exch[s]) > 0 => loadState(file)[s].lastIndex = procs.applied[s]

\* C33 witness: both processes loaded cursor 0 of 7 Binance symbols and
\* saved 5 each; the file holds 5 where the two batches sum to 3 modulo 7
C33_Witness ==
    /\ BothSavedSameBase
    /\ ~procs.serial
    /\ Len(exch.binance) = 7
    /\ procs.run[1].batch = procs.run[2].batch
    /\ Len(procs.run[1].batch.binance) = 5
    /\ file.data.binance.lastIndex = 5
    /\ procs.applied.binance = 3

(* ------------------- claims about the candle request ------------------- *)

Requested2 == result # NoResult /\ input.kind = "kline"

\* the answer gives candles: status 200 and a body with code '0' and data
IsGood(response) ==
    response.status = 200 /\ response.code = "0" /\ response.data # <<>>

\* C34: get_kline_data makes one request, or two exactly when the first
\* answer has status 429, then after one sleep of 5 seconds; it returns the
\* candles of its last answer oldest first when that answer is good, and an
\* empty list otherwise, in particular when the second request fails too.
C34_SingleRetry ==
    Requested2 =>
        /\ result.attempts \in {1, 2}
        /\ result.attempts = 2 <=> input.first.status = 429
        /\ result.slept = IF result.attempts = 2 THEN 5 ELSE 0
        /\ LET last == IF result.attempts = 2 THEN input.second ELSE input.first IN
             IF IsGood(last)
             THEN /\ Len(result.returned) = Len(last.data)
                  /\ \A i \in 1..Len(last.data) : result.returned[i] = i
             ELSE result.returned = <<>>

\* C34 witness: the first answer was 429 and the second one too; two
\* requests were made and the empty list returned
C34_Witness ==
    /\ Requested2
    /\ input.first.status = 429
    /\ input.second.status = 429
    /\ input.second.data # <<>>
    /\ result.attempts = 2
    /\ result.returned = <<>>

(* ------------------- claims about the selected batch ------------------- *)

\* C35: whatever cursor was loaded, also one at or beyond the end of a list
\* that a refresh has shortened, the batch of an exchange holds only symbols
\* of its current list, is not longer than the list and holds no symbol twice.
C35_BatchWellFormed ==
    BatchHeld =>
        \A s \in Sources :
            /\ Len(batch[s]) <= Len(Symbols(s))
            /\ \A i \in 1..Len(batch[s]) : batch[s][i] \in Range(Symbols(s))
            /\ \A i, j \in 1..Len(batch[s]) : batch[s][i] = batch[s][j] => i = j

\* C35 witness: the loaded cursor is beyond the end of the shortened Binance
\* list, and the batch holds every symbol of that list, not starting at its head
C35_Witness ==
    /\ pc = "check"
    /\ Len(Symbols("binance")) > 1
    /\ Cursor("binance") > Len(Symbols("binance"))
    /\ Len(batch.binance) = Len(Symbols("binance"))
    /\ batch.binance[1] # Symbols("binance")[1]

\* C36: the refresh step changes at most the symbol lists and the refresh
\* times, both of the in-memory state only, and leaves every lastIndex as it
\* was loaded; the cursor update changes at most the lastIndex fields and
\* leaves the lists and the refresh times alone.
C36_Frames ==
    [][/\ (pc = "refresh" /\ GoesOn) =>
             /\ \A s \in Sources : state'[s].lastIndex = state[s].lastIndex
             /\ <<file, batch, found, delivered, outcome, now, exch>>'
                  = <<file, batch, found, delivered, outcome, now, exch>>
       /\ (pc = "update" /\ GoesOn) =>
             /\ \A s \in Sources :
                  /\ state'[s].allSymbols = state[s].allSymbols
                  /\ state'[s].lastRun = state[s].lastRun
             /\ <<file, batch, found, delivered, outcome, now, exch>>'
                  = <<file, batch, found, delivered, outcome, now, exch>>]_vars

\* C36 witness: a refresh has replaced the saved Binance list by another one
\* and set the refresh time, and the cursor is the saved one, not 0
C36_Witness ==
    /\ pc = "select"
    /\ file.exists
    /\ fetched.binance = "ok"
    /\ Symbols("binance") # file.data.binance.allSymbols
    /\ state.binance.lastRun = now
    /\ file.data.binance.lastRun < now
    /\ Cursor("binance") = file.data.binance.lastIndex
    /\ Cursor("binance") > 0

\* C37: a run whose batch yielded no spike goes through the same update and
\* save as a run with spikes: the notification attempted for "no spikes"
\* fails without stopping the run, each exchange's lastIndex is advanced by
\* its batch size (modulo its list length), and the save writes that state.
C37_ZeroFindings ==
    [][~found =>
        /\ (pc = "notify" /\ GoesOn) =>
              (pc' = "update" /\ ~delivered' /\ state' = state /\ batch' = batch)
        /\ (pc = "update" /\ GoesOn) =>
              /\ pc' = "save"
              /\ batch' = batch
              /\ \A s \in Sources :
                   state'[s] = [state[s] EXCEPT !.lastIndex =
                                  IF Len(Symbols(s)) > 0
                                  THEN (@ + Len(batch[s])) % Len(Symbols(s))
                                  ELSE @]
        /\ (pc = "save" /\ GoesOn) =>
              /\ pc' = "end"
              /\ outcome' \in {"saved", "saveFailed"}
              /\ outcome' = "saved" => file' = saveState(state)]_vars

\* C37 witness: a run without spikes, whose notification was not delivered,
\* has saved a cursor advanced by the size of a non-empty batch
C37_Witness ==
    /\ pc = "end"
    /\ outcome = "saved"
    /\ ~found
    /\ ~delivered
    /\ Len(batch.okx) > 0
    /\ Len(Symbols("okx")) > Len(batch.okx)
    /\ Cursor("okx") >= Len(batch.okx)
    /\ file.data = state

(* ------------------- claims about a fixed universe -------------------- *)

\* position (from 1) of a symbol in a list without repetitions
PositionOf(list, sym) == CHOOSE i \in 1..Len(list) : list[i] = sym

HasLastBatch == lastBatch # EmptyBatch

AllSelected(s) == \A k \in 1..Len(exch[s]) : selCount[s][k] >= 1

\* C1: with a fixed universe of N symbols and a fixed batch size B < N, once
\* ceil(N/B) runs have completed every symbol has been selected at least once,
\* and when B divides N, after exactly N/B runs every symbol has been selected
\* exactly once.
C1_CoverageFairness ==
    (pc = "idle" /\ HasLastBatch) =>
        \A s \in Sources :
            LET N == Len(exch[s])
                B == Len(lastBatch[s])
            IN  (0 < B /\ B < N) =>
                    /\ runsDone * B >= N => AllSelected(s)
                    /\ (N % B = 0 /\ runsDone * B = N) =>
                          \A k \in 1..N : selCount[s][k] = 1

\* C1 witness: one exchange covered exactly once after N/B runs, the other
\* covered after ceil(N/B) runs with B not dividing N
C1_Witness ==
    /\ pc = "idle"
    /\ runsDone = 2
    /\ Len(exch.binance) = 2 * Len(lastBatch.binance)
    /\ \A k \in 1..Len(exch.binance) : selCount.binance[k] = 1
    /\ Len(exch.okx) = Len(lastBatch.okx) + 2
    /\ AllSelected("okx")

\* C7: with completed runs and an unchanged universe, the batch of a run starts
\* at the list position right after the last symbol of the previous run's
\* batch, wrapping at the end of the list.
C7_ContiguousBatches ==
    (pc = "check" /\ HasLastBatch /\ lastSaved) =>
        \A s \in Sources :
            (Len(lastBatch[s]) > 0 /\ Len(batch[s]) > 0) =>
                PositionOf(exch[s], batch[s][1])
                  = (PositionOf(exch[s], lastBatch[s][Len(lastBatch[s])]) % Len(exch[s])) + 1

\* C7 witness: the previous batch ended at the end of the list and this
\* one starts at its head, as the first batch did
C7_Witness ==
    /\ pc = "check"
    /\ lastSaved
    /\ runsDone = 2
    /\ Len(exch.binance) > Len(batch.binance)
    /\ lastBatch.binance[Len(lastBatch.binance)] = exch.binance[Len(exch.binance)]
    /\ batch.binance[1] = exch.binance[1]

\* C10: with a fixed universe and completed runs, the selection counts of any
\* two symbols of an exchange never differ by more than 1, and two consecutive
\* runs start at the same symbol only when the symbols consumed are a multiple
\* of N.
C10_EqualFrequency ==
    \A s \in Sources :
        /\ \A j, k \in 1..Len(exch[s]) : selCount[s][j] - selCount[s][k] <= 1
        /\ (pc = "check" /\ HasLastBatch /\ lastSaved
               /\ Len(lastBatch[s]) > 0 /\ Len(batch[s]) > 0
               /\ batch[s][1] = lastBatch[s][1])
             => Len(lastBatch[s]) % Len(exch[s]) = 0

\* C10 witness: after three runs over 7 symbols some have been selected three
\* times and the others twice, the runs having started at three different symbols
C10_Witness ==
    /\ pc = "check"
    /\ runsDone = 2
    /\ Len(exch.binance) = 7
    /\ \E j, k \in 1..7 : selCount.binance[j] = 3 /\ selCount.binance[k] = 2
    /\ batch.binance[1] # lastBatch.binance[1]

(* -------------- claims about crashes and failed saves ----------------- *)

\* C2: a run that selected its batch and then crashed, or whose save failed,
\* leaves the persisted cursor at the start of that batch, and the next run
\* that selects (the universe being unchanged) selects exactly the same batch
\* for both exchanges.
C2_IdempotentResume ==
    (HasLastBatch /\ ~lastSaved) =>
        /\ pc \in {"idle", "load", "refresh", "select"} =>
              \A s \in Sources :
                  Len(lastBatch[s]) > 0 =>
                      (loadState(file)[s].lastIndex % Len(exch[s])) + 1
                        = PositionOf(exch[s], lastBatch[s][1])
        /\ pc \in {"check", "notify", "update", "save"} => batch = lastBatch

\* C2 witness: after a failed save of a batch that did not start at the head
\* of the list, the next run has selected that batch again
C2_Witness ==
    /\ pc = "check"
    /\ HasLastBatch
    /\ ~lastSaved
    /\ outcome = "saveFailed"
    /\ batch = lastBatch
    /\ Len(batch.binance) > 0
    /\ batch.binance[1] # exch.binance[1]

\* C9: for a fixed universe, if infinitely many runs persist their state
\* (the others may crash or fail to save at any point), every symbol is
\* eventually selected; and the state file, once written, is changed only by a
\* successful save.
C9_EventualCoverage ==
    /\ ([]<><<SaveOk>>_vars) => <>(\A s \in Sources : AllSelected(s))
    /\ [][file.exists =>
            /\ file'.exists
            /\ file' # file => (pc = "save" /\ outcome' = "saved")]_vars

\* C9 witness: every symbol of a universe longer than the batch has been
\* selected although a run in between crashed
C9_Witness ==
    /\ Len(exch.binance) > Share("binance")
    /\ \A s \in Sources : AllSelected(s)
    /\ outcome = "crashed"
    /\ file.exists

====
